---- MODULE Spec2Model ----
(***************************************************************************)
(* State-machine model of the opensomeip core: the SOME/IP message codec   *)
(* and its move operations, the TP segmenter and reassembler, the          *)
(* reference E2E profile, the E2E profile registry, the UDP transport, the *)
(* SD server and client and the SD message codec, and the threads of       *)
(* the segmenter, of SdServerImpl::shutdown and of the SD client's         *)
(* callbacks.  Every operator is translated from the C++ source it names   *)
(* in MODEL_MAP.json.  Unsigned integers keep their width.                 *)
(***************************************************************************)
EXTENDS Integers, Sequences, FiniteSets, TLC

VARIABLES
    msg_obj,    \* codec: the Message the application built
    wire,       \* codec: the bytes Message::serialize returned
    rx,         \* codec: [ok, msg] left by Message::deserialize
    msg_pc,     \* codec: "idle", "built", "serialized", "deserialized"
    tp_config,            \* TP: TpConfig shared by segmenter and reassembler
    next_sequence_number_,\* TP: TpSegmenter::next_sequence_number_
    tp_msg,               \* TP: the message last given to segment_message
    tp_result,            \* TP: "NONE", "SUCCESS", "MESSAGE_TOO_LARGE"
    tp_segments,          \* TP: the segments segment_message returned
    reassembly_buffers_,  \* TP: TpReassembler::reassembly_buffers_
    tp_delivered,         \* TP: indices of tp_segments given to process_segment
    tp_calls,             \* TP: number of process_segment calls for tp_msg
    tp_last,              \* TP: [ret, complete_message] of the last process_segment
    tp_completed,         \* TP: the complete messages handed back for tp_msg
    tp_count,             \* TP: number of segment_message calls so far
    tp_now,               \* TP: the steady clock, in microseconds
    tp_rx,                \* TP: record of the last reassembler call
    tp_ticks,             \* TP: clock advances still to come
    counters_,            \* E2E: BasicE2EProfile::counters_, per data id
    freshness_values_,    \* E2E: BasicE2EProfile::freshness_values_, per data id
    e2e_now,              \* E2E: the steady clock, in milliseconds
    e2e_msg,              \* E2E: the message travelling from protect to validate
    e2e_cfg,              \* E2E: the E2EConfig of the last protect call
    e2e_stage,            \* E2E: what happened to e2e_msg since protect
    e2e_sent,             \* E2E: [msg, now] as the last protect call left them
    e2e_wire_ok,          \* E2E: what Message::deserialize returned for e2e_msg
    e2e_last,             \* E2E: record of the last protect or validate call
    e2e_budget,           \* E2E: protect and validate calls still to come
    e2e_ticks,            \* E2E: clock advances still to come
    profiles_by_id_,      \* registry: E2EProfileRegistry::profiles_by_id_
    profiles_by_name_,    \* registry: E2EProfileRegistry::profiles_by_name_
    reg_heap,             \* registry: the profile objects created so far
    reg_last,             \* registry: record of the last registry call
    user_pc,              \* registry: position of the thread inside E2EProtection
    user_profile,         \* registry: the E2EProfile* that thread holds (0 = null)
    user_call,            \* registry: the E2EProtection call that thread is in
    udp_config,           \* UDP: UdpTransportConfig [blocking, receive_buffer_size]
    running_,             \* UDP: UdpTransport::running_
    socket_fd_,           \* UDP: UdpTransport::socket_fd_ (-1 = none)
    udp_sock,             \* UDP: the kernel socket [open, rcv_shutdown, queue]
    udp_buffer,           \* UDP: the worker's receive buffer [size, data]
    udp_sender,           \* UDP: the worker's sender endpoint of the last recvfrom
    receive_queue_,       \* UDP: UdpTransport::receive_queue_
    udp_pc,               \* UDP: position of the receive worker
    udp_rx,               \* UDP: index in udp_log of the datagram in the buffer (0 = none)
    udp_log,              \* UDP: the datagrams recvfrom has consumed, in order
    udp_callbacks,        \* UDP: on_message_received calls [msg, sender, idx], in order
    udp_stop_pc,          \* UDP: position of the thread inside stop()
    udp_stop_at,          \* UDP: where the worker was when stop() was called
    udp_arrivals,         \* UDP: datagrams still to arrive
    sds_config,           \* SD server: SdConfig
    sds_running,          \* SD server: SdServerImpl::running_
    sds_transport,        \* SD server: whether transport_ is running
    offered_services_,    \* SD server: SdServerImpl::offered_services_
    next_offer_delay_,    \* SD server: SdServerImpl::next_offer_delay_, in ms
    sds_now,              \* SD server: the steady clock, in ms
    sds_sent,             \* SD server: the messages handed to the transport so far
    sds_timer_pc,         \* SD server: position of the offer timer thread
    sds_shutdown_pc,      \* SD server: position of the thread inside shutdown()
    sds_snapshot,         \* SD server: the offered list when shutdown sent its stop offers
    sds_last,             \* SD server: record of the last call or handled entry
    sds_budget,           \* SD server: calls and received entries still to come
    sds_rounds,           \* SD server: timer sleeps still to come while running
    sdc_running,          \* SD client: SdClientImpl::running_
    service_subscriptions_, \* SD client: SdClientImpl::service_subscriptions_
    available_services_,  \* SD client: SdClientImpl::available_services_
    pending_finds_,       \* SD client: SdClientImpl::pending_finds_
    next_request_id_,     \* SD client: SdClientImpl::next_request_id_
    sdc_now,              \* SD client: the steady clock, in ms
    sdc_calls,            \* SD client: the user callbacks invoked so far
    sdc_last,             \* SD client: record of the last call or handled entry
    sdc_budget,           \* SD client: calls and received entries still to come
    sdc_ticks,            \* SD client: clock advances still to come
    mv_objs,              \* move: the Message objects "a" and "b"
    mv_last,              \* move: record of the last move between them
    mv_budget,            \* move: operations still to come
    sdm_host,             \* SD codec: byte order of the host, "little" or "big"
    sdm_msg,              \* SD codec: the SdMessage the application built
    sdm_bytes,            \* SD codec: the byte image to parse
    sdm_rx,               \* SD codec: [ok, msg] left by SdMessage::deserialize
    sdm_opt,              \* SD codec: record of the last IPv4EndpointOption::serialize
    sdm_pc,               \* SD codec: "idle", "built", "serialized", "received", "deserialized"
    tc_thr,               \* TP threads: per thread, its position inside segment_message
    tl_loop,              \* TP loop: the locals of create_multi_segments, step by step
    sdl_state,            \* SD server locks: shutdown() against the receive thread
    scl_state             \* SD client locks: a handler and the user callback it runs

msgVars == <<msg_obj, wire, rx, msg_pc>>

tpVars == <<tp_config, next_sequence_number_, tp_msg, tp_result, tp_segments,
            reassembly_buffers_, tp_delivered, tp_calls, tp_last, tp_completed, tp_count,
            tp_now, tp_rx, tp_ticks>>

e2eVars == <<counters_, freshness_values_, e2e_now, e2e_msg, e2e_cfg, e2e_stage,
             e2e_sent, e2e_wire_ok, e2e_last, e2e_budget, e2e_ticks>>

regVars == <<profiles_by_id_, profiles_by_name_, reg_heap, reg_last, user_pc, user_profile,
             user_call>>

udpVars == <<udp_config, running_, socket_fd_, udp_sock, udp_buffer, udp_sender,
             receive_queue_, udp_pc, udp_rx, udp_log, udp_callbacks, udp_stop_pc,
             udp_stop_at, udp_arrivals>>

sdsVars == <<sds_config, sds_running, sds_transport, offered_services_, next_offer_delay_,
             sds_now, sds_sent, sds_timer_pc, sds_shutdown_pc, sds_snapshot, sds_last,
             sds_budget, sds_rounds>>

sdcVars == <<sdc_running, service_subscriptions_, available_services_, pending_finds_,
             next_request_id_, sdc_now, sdc_calls, sdc_last, sdc_budget, sdc_ticks>>

mvVars == <<mv_objs, mv_last, mv_budget>>

sdmVars == <<sdm_host, sdm_msg, sdm_bytes, sdm_rx, sdm_opt, sdm_pc>>

\* the thread-level models of the segmenter and of the SD mutexes
lateVars == <<tc_thr, tl_loop, sdl_state, scl_state>>

\* everything outside the message codec, TP, E2E and the registry
netVars == <<udpVars, sdsVars, sdcVars, mvVars, sdmVars, lateVars>>

vars == <<msgVars, tpVars, e2eVars, regVars, netVars>>

----------------------------------------------------------------------------
(* Fixed-width unsigned arithmetic                                         *)

U8(x)  == x % (2^8)
U16(x) == x % (2^16)

\* byte i (0 = least significant) of x
ByteOf(x, i) == (x \div (2^(8 * i))) % 256

\* htons / htonl followed by the byte-wise copy into the vector (x below 2^31)
BE16(x) == <<ByteOf(x, 1), ByteOf(x, 0)>>
BE32(x) == <<ByteOf(x, 3), ByteOf(x, 2), ByteOf(x, 1), ByteOf(x, 0)>>

\* ntohs / ntohl of the bytes at 0-based offset off
RdBE16(d, off) == d[off + 1] * (2^8) + d[off + 2]
RdBE32(d, off) == d[off + 1] * (2^24) + d[off + 2] * (2^16) + d[off + 3] * (2^8) + d[off + 4]

\* A uint32_t that uses its full width (crc, counter, max_counter_value) is the
\* pair <<high 16 bits, low 16 bits>>.
W32(n) == <<n \div (2^16), n % (2^16)>>
WZero == <<0, 0>>
WOne == <<0, 1>>
WMax == <<65535, 65535>>
WLt(a, b) == a[1] < b[1] \/ (a[1] = b[1] /\ a[2] < b[2])
WLe(a, b) == a = b \/ WLt(a, b)
WGt(a, b) == WLt(b, a)
WGe(a, b) == WLe(b, a)
\* a + 1 and a - n (0 <= n < 2^16) modulo 2^32
WInc(a) == IF a[2] = 65535 THEN <<(a[1] + 1) % (2^16), 0>> ELSE <<a[1], a[2] + 1>>
WSub(a, n) ==
    IF a[2] >= n THEN <<a[1], a[2] - n>>
    ELSE <<(a[1] + 65535) % (2^16), a[2] + (2^16) - n>>
WBE32(a) == BE16(a[1]) \o BE16(a[2])
WRdBE32(d, off) == <<RdBE16(d, off), RdBE16(d, off + 2)>>
\* byte i (0 = least significant) of a
WByteOf(a, i) == IF i < 2 THEN ByteOf(a[2], i) ELSE ByteOf(a[1], i - 2)

RECURSIVE BitXor(_, _)
BitXor(a, b) ==
    IF a = 0 THEN b
    ELSE IF b = 0 THEN a
    ELSE ((a + b) % 2) + 2 * BitXor(a \div 2, b \div 2)

RECURSIVE BitAnd(_, _)
BitAnd(a, b) ==
    IF a = 0 \/ b = 0 THEN 0
    ELSE ((a % 2) * (b % 2)) + 2 * BitAnd(a \div 2, b \div 2)

BitOr(a, b) == a + b - BitAnd(a, b)

\* the bytes of s from 0-based offset off to the end
Drop(s, off) == SubSeq(s, off + 1, Len(s))
Take(s, n) == SubSeq(s, 1, n)

----------------------------------------------------------------------------
(* E2E header: include/e2e/e2e_header.h, src/e2e/e2e_header.cpp            *)

E2E_HEADER_SIZE == 12

\* std::optional<E2EHeader> without a value
NoE2EHeader ==
    [has |-> FALSE, crc |-> WZero, counter |-> WZero, data_id |-> 0, freshness_value |-> 0]

E2EHeader(crc, counter, data_id, freshness) ==
    [has |-> TRUE, crc |-> crc, counter |-> counter, data_id |-> data_id,
     freshness_value |-> freshness]

E2EHeaderSerialize(h) ==
    WBE32(h.crc) \o WBE32(h.counter) \o BE16(h.data_id) \o BE16(h.freshness_value)

\* E2EHeader::deserialize: [ok, header]
E2EHeaderDeserialize(data, offset) ==
    IF Len(data) < offset + E2E_HEADER_SIZE
    THEN [ok |-> FALSE, header |-> NoE2EHeader]
    ELSE [ok |-> TRUE,
          header |-> E2EHeader(WRdBE32(data, offset), WRdBE32(data, offset + 4),
                               RdBE16(data, offset + 8), RdBE16(data, offset + 10))]

----------------------------------------------------------------------------
(* Message: src/someip/message.cpp                                         *)

HEADER_SIZE == 16
MIN_MESSAGE_SIZE == 16
SOMEIP_PROTOCOL_VERSION == 1
SOMEIP_INTERFACE_VERSION == 1

\* MessageType values accepted by has_valid_message_type
ValidMessageTypes == {0, 1, 2, 128, 129, 64, 192, 193, 32, 33, 34}

\* ReturnCode values accepted by has_valid_header
ValidReturnCodes == 0 .. 15

E2ESizeOf(m) == IF m.e2e_header.has THEN E2E_HEADER_SIZE ELSE 0

\* Message::update_length
UpdateLength(m) == [m EXCEPT !.length = 8 + E2ESizeOf(m) + Len(m.payload)]

\* Message::Message()
DefaultMessage ==
    [service_id |-> 0, method_id |-> 0, length |-> 8, client_id |-> 0, session_id |-> 0,
     protocol_version |-> SOMEIP_PROTOCOL_VERSION,
     interface_version |-> SOMEIP_INTERFACE_VERSION,
     message_type |-> 0, return_code |-> 0,
     e2e_header |-> NoE2EHeader, payload |-> <<>>]

\* Message::Message(MessageId, RequestId, MessageType, ReturnCode)
NewMessage(sid, mid, cid, ses, type, rc) ==
    UpdateLength([DefaultMessage EXCEPT !.service_id = sid, !.method_id = mid,
                                        !.client_id = cid, !.session_id = ses,
                                        !.message_type = type, !.return_code = rc])

\* Message::set_payload
SetPayload(m, p) == UpdateLength([m EXCEPT !.payload = p])

\* Message::set_e2e_header
SetE2EHeader(m, h) == UpdateLength([m EXCEPT !.e2e_header = h])

\* Message::set_message_type
SetMessageType(m, t) == [m EXCEPT !.message_type = t]

\* htonl(MessageId::to_uint32()), htonl(RequestId::to_uint32()) as bytes
MessageIdBytes(m) == BE16(m.service_id) \o BE16(m.method_id)
RequestIdBytes(m) == BE16(m.client_id) \o BE16(m.session_id)

\* Message::serialize
Serialize(m) ==
    MessageIdBytes(m) \o BE32(m.length) \o RequestIdBytes(m)
    \o <<m.protocol_version, m.interface_version, m.message_type, m.return_code>>
    \o (IF m.e2e_header.has THEN E2EHeaderSerialize(m.e2e_header) ELSE <<>>)
    \o m.payload

\* Message::has_valid_header
HasValidHeader(m) ==
    /\ m.method_id # 65535
    /\ m.length >= 8
    /\ m.message_type \in ValidMessageTypes
    /\ m.protocol_version = SOMEIP_PROTOCOL_VERSION
    /\ m.interface_version = SOMEIP_INTERFACE_VERSION
    /\ m.length = 8 + E2ESizeOf(m) + Len(m.payload)
    /\ m.return_code \in ValidReturnCodes

\* Message::is_valid (payloads of the model stay far below MAX_TCP_PAYLOAD_SIZE)
IsValid(m) == HasValidHeader(m)

\* the "repeated byte pattern" tests of Message::deserialize
RepeatedBytes32(x) ==
    /\ WByteOf(x, 0) = WByteOf(x, 1)
    /\ WByteOf(x, 1) = WByteOf(x, 2)
    /\ WByteOf(x, 2) = WByteOf(x, 3)

RepeatedBytes16(x) == ByteOf(x, 0) = ByteOf(x, 1)

LooksLikePayloadData(h) ==
    \/ RepeatedBytes32(h.crc)
    \/ RepeatedBytes32(h.counter)
    \/ RepeatedBytes16(h.freshness_value)

\* the E2E header Message::deserialize adopts for data whose length field is len
DetectE2EHeader(data, len) ==
    IF /\ Len(data) - HEADER_SIZE >= E2E_HEADER_SIZE
       /\ len >= 8 + E2E_HEADER_SIZE
       /\ Len(data) = 16 + E2E_HEADER_SIZE + (len - 8 - E2E_HEADER_SIZE)
    THEN LET r == E2EHeaderDeserialize(data, HEADER_SIZE)
             h == r.header
         IN  IF /\ r.ok
                /\ h.data_id # 0
                /\ (h.crc # WZero \/ h.counter # WZero \/ h.freshness_value # 0)
                /\ ~LooksLikePayloadData(h)
             THEN h
             ELSE NoE2EHeader
    ELSE NoE2EHeader

\* Message::deserialize on object obj: [ok, msg], msg the object after the call
Deserialize(obj, data) ==
    IF Len(data) < MIN_MESSAGE_SIZE
    THEN [ok |-> FALSE, msg |-> obj]
    ELSE LET len == RdBE32(data, 4)
             hdr == [obj EXCEPT !.service_id = RdBE16(data, 0),
                                !.method_id = RdBE16(data, 2),
                                !.length = len,
                                !.client_id = RdBE16(data, 8),
                                !.session_id = RdBE16(data, 10),
                                !.protocol_version = data[13],
                                !.interface_version = data[14],
                                !.message_type = data[15],
                                !.return_code = data[16],
                                !.e2e_header = DetectE2EHeader(data, len)]
             offset == HEADER_SIZE + E2ESizeOf(hdr)
         IN  IF len < 8
             THEN [ok |-> FALSE, msg |-> hdr]
             ELSE IF Len(data) - offset # len - 8 - E2ESizeOf(hdr)
             THEN [ok |-> FALSE, msg |-> hdr]
             ELSE LET m == [hdr EXCEPT !.payload = Drop(data, offset)]
                  IN  [ok |-> IsValid(m), msg |-> m]

----------------------------------------------------------------------------
(* TP segmenter: src/tp/tp_segmenter.cpp                                   *)

TP_HEADER_SIZE == 4
TP_FLAG == 32
SINGLE_TP_THRESHOLD == 1000
UINT16_MAX == 65535

\* TpSegmenter::add_tp_flag
AddTpFlag(type) == BitOr(type, TP_FLAG)

\* the four big-endian bytes of (offset / 16) << 4 | more_segments
TpHeaderBytes(offset, more_segments) ==
    BE32((offset \div 16) * 16 + (IF more_segments THEN 1 ELSE 0))

TpSegmentRec(type, seq, offset, seglen, msglen, bytes) ==
    [header |-> [message_type |-> type, sequence_number |-> seq,
                 segment_offset |-> offset, segment_length |-> seglen,
                 message_length |-> msglen],
     payload |-> bytes]

Min(a, b) == IF a < b THEN a ELSE b

\* the single-segment branch of TpSegmenter::segment_message
SingleSegment(cfg, message, seq) ==
    LET payload == message.payload
        tp_message == IF Len(payload) > SINGLE_TP_THRESHOLD
                      THEN SetMessageType(message, AddTpFlag(message.message_type))
                      ELSE message
        message_data == Serialize(tp_message)
    IN  <<TpSegmentRec("SINGLE_MESSAGE", seq, 0, U16(Len(message_data)),
                       Len(payload), message_data)>>

\* the first-segment block of TpSegmenter::create_multi_segments
FirstSegment(cfg, message, seq) ==
    LET payload == message.payload
        total_length == Len(payload)
        tp_message == SetMessageType(message, AddTpFlag(message.message_type))
        first_payload_size == Min(cfg.max_segment_size - 16 - 4, total_length)
        more_segments == 0 + first_payload_size < total_length
        segment_length == 8 + 4 + first_payload_size
        header == Take(Serialize(tp_message), 4) \o BE32(segment_length)
                  \o SubSeq(Serialize(tp_message), 9, 16)
                  \o TpHeaderBytes(0, more_segments)
                  \o Take(payload, first_payload_size)
    IN  TpSegmentRec("FIRST_SEGMENT", seq, 0, U16(Len(header)), total_length, header)

\* the while loop of TpSegmenter::create_multi_segments from payload_offset on
RECURSIVE SubsequentSegments(_, _, _, _)
SubsequentSegments(cfg, payload, seq, payload_offset) ==
    LET total_length == Len(payload)
        remaining_bytes == total_length - payload_offset
        type == IF remaining_bytes <= cfg.max_segment_size
                THEN "LAST_SEGMENT" ELSE "CONSECUTIVE_SEGMENT"
        payload_size == U16(Min(cfg.max_segment_size - 4, remaining_bytes))
        more_segments == payload_offset + payload_size < total_length
        segment_data == TpHeaderBytes(payload_offset, more_segments)
                        \o SubSeq(payload, payload_offset + 1, payload_offset + payload_size)
    IN  IF ~(payload_offset < total_length) THEN <<>>
        ELSE <<TpSegmentRec(type, seq, payload_offset, U16(Len(segment_data)),
                            total_length, segment_data)>>
             \o SubsequentSegments(cfg, payload, seq, U16(payload_offset + payload_size))

\* TpSegmenter::create_multi_segments: the segments
CreateMultiSegments(cfg, message, seq) ==
    LET first_payload_size == Min(cfg.max_segment_size - 16 - 4, Len(message.payload))
    IN  <<FirstSegment(cfg, message, seq)>>
        \o SubsequentSegments(cfg, message.payload, seq, U16(first_payload_size))

\* TpSegmenter::segment_message: [result, segments, next], next the sequence
\* counter after the call (post-increment, and once more at the end of
\* create_multi_segments). The uint16_t payload_offset of
\* create_multi_segments stays below a total_length above UINT16_MAX for
\* ever: the while loop appends segments until memory is exhausted and the
\* call does not return ("NO_RETURN").
SegmentMessage(cfg, message, next) ==
    IF Len(message.payload) > cfg.max_message_size
    THEN [result |-> "MESSAGE_TOO_LARGE", segments |-> <<>>, next |-> next]
    ELSE IF Len(message.payload) <= cfg.max_segment_size
    THEN [result |-> "SUCCESS", segments |-> SingleSegment(cfg, message, next),
          next |-> U8(next + 1)]
    ELSE IF Len(message.payload) > UINT16_MAX
    THEN [result |-> "NO_RETURN", segments |-> <<>>, next |-> U8(next + 1)]
    ELSE [result |-> "SUCCESS", segments |-> CreateMultiSegments(cfg, message, next),
          next |-> (U8(next + 1) + 1) % 256]

----------------------------------------------------------------------------
(* TP reassembler: src/tp/tp_reassembler.cpp                               *)

\* TpReassemblyBuffer(sequence_number, message_length), constructed at time now
NewBuffer(seq, total_len, now) ==
    [message_id |-> seq, total_length |-> total_len,
     received_data |-> [i \in 1 .. total_len |-> 0],
     received_segments |-> <<>>, start_time |-> now,
     last_sequence_number |-> 0, complete |-> FALSE]

\* validate_segment without the comparison of payload size and segment_length
ValidateSegmentNoSizeCheck(cfg, segment) ==
    /\ segment.header.message_length <= cfg.max_message_size
    /\ segment.header.segment_offset + segment.header.segment_length
           <= segment.header.message_length

\* TpReassembler::validate_segment
ValidateSegment(cfg, segment) ==
    /\ segment.header.segment_length = Len(segment.payload)
    /\ segment.header.message_length <= cfg.max_message_size
    /\ segment.header.segment_offset + segment.header.segment_length
           <= segment.header.message_length

\* TpReassemblyBuffer::is_segment_received (uint16_t offset, uint16_t length)
IsSegmentReceived(buffer, offset, length) ==
    \A i \in 0 .. (length - 1) :
        /\ offset + i < Len(buffer.received_segments)
        /\ buffer.received_segments[offset + i + 1]

\* TpReassemblyBuffer::mark_segment_received (uint16_t offset, uint16_t length)
MarkSegmentReceived(buffer, offset, length) ==
    LET n == IF Len(buffer.received_segments) < buffer.total_length
             THEN buffer.total_length ELSE Len(buffer.received_segments)
        resized == [i \in 1 .. n |-> IF i <= Len(buffer.received_segments)
                                     THEN buffer.received_segments[i] ELSE FALSE]
    IN  [buffer EXCEPT !.received_segments =
            [i \in 1 .. n |-> resized[i] \/ (offset < i /\ i <= offset + length)]]

\* TpReassemblyBuffer::is_complete
IsComplete(buffer) ==
    \/ buffer.complete
    \/ \A i \in 1 .. Len(buffer.received_segments) : buffer.received_segments[i]

\* std::copy of bytes into received_data starting at 0-based position at
CopyInto(data, bytes, at) ==
    [i \in 1 .. Len(data) |->
        IF at < i /\ i <= at + Len(bytes) THEN bytes[i - at] ELSE data[i]]

\* TpReassembler::add_segment_to_buffer: [ok, buffer]
AddSegmentToBuffer(buffer, segment) ==
    LET h == segment.header
        size == Len(segment.payload)
        skip == h.message_type \in {"FIRST_SEGMENT", "SINGLE_MESSAGE"}
        bytes_received == IF skip THEN (IF size > 16 THEN size - 16 ELSE 0) ELSE size
        bytes == IF skip THEN (IF size > 16 THEN Drop(segment.payload, 16) ELSE <<>>)
                 ELSE segment.payload
        at == IF h.message_type = "SINGLE_MESSAGE" THEN 0 ELSE h.segment_offset
        copied == [buffer EXCEPT !.received_data = CopyInto(@, bytes, at)]
        marked == MarkSegmentReceived(copied, U16(h.segment_offset), U16(bytes_received))
    IN  IF IsSegmentReceived(buffer, U16(h.segment_offset), h.segment_length)
        THEN [ok |-> TRUE, buffer |-> buffer]
        ELSE IF h.segment_offset + h.segment_length > buffer.total_length
        THEN [ok |-> FALSE, buffer |-> buffer]
        ELSE [ok |-> TRUE,
              buffer |-> [marked EXCEPT !.last_sequence_number = h.sequence_number]]

\* TpReassembler::process_segment at time now: [ret, complete_message, buffers]
ProcessSegment(cfg, buffers, segment, now) ==
    LET seq == segment.header.sequence_number
        creates == segment.header.message_type \in {"FIRST_SEGMENT", "SINGLE_MESSAGE"}
        buffer == IF seq \in DOMAIN buffers THEN buffers[seq]
                  ELSE NewBuffer(seq, segment.header.message_length, now)
        found == [s \in (DOMAIN buffers) \cup {seq} |->
                     IF s = seq THEN buffer ELSE buffers[s]]
        added == AddSegmentToBuffer(buffer, segment)
        stored == [found EXCEPT ![seq] = added.buffer]
    IN  IF ~ValidateSegment(cfg, segment)
        THEN [ret |-> FALSE, complete_message |-> <<>>, buffers |-> buffers]
        ELSE IF seq \notin DOMAIN buffers /\ ~creates
        THEN [ret |-> FALSE, complete_message |-> <<>>, buffers |-> buffers]
        ELSE IF added.ok /\ IsComplete(added.buffer)
        THEN [ret |-> TRUE, complete_message |-> added.buffer.received_data,
              buffers |-> [s \in (DOMAIN found) \ {added.buffer.message_id} |-> stored[s]]]
        ELSE [ret |-> TRUE, complete_message |-> <<>>, buffers |-> stored]

----------------------------------------------------------------------------
(* E2E CRC: src/e2e/e2e_crc.cpp                                            *)

\* a function as a filled table: every entry computed once
Tabulate(f) == f @@ <<>>

\* a ^ b on bytes, tabulated once
XorByteTable == Tabulate([a \in 0 .. 255 |-> Tabulate([b \in 0 .. 255 |-> BitXor(a, b)])])
Xor8(a, b) == XorByteTable[a][b]
Xor16(a, b) == Xor8(a \div 256, b \div 256) * 256 + Xor8(a % 256, b % 256)
WXor(a, b) == <<Xor16(a[1], b[1]), Xor16(a[2], b[2])>>
\* (a << 1) and (a << 8) in 32 bits
WShl1(a) == <<(a[1] * 2 + a[2] \div 32768) % 65536, (a[2] * 2) % 65536>>
WShl8(a) == <<(a[1] * 256 + a[2] \div 256) % 65536, (a[2] * 256) % 65536>>

SAE_J1850_POLY == 29
SAE_J1850_INIT == 255
ITU_X25_POLY == 4129
ITU_X25_INIT == 65535
CRC32_POLY == <<1217, 7607>>
CRC32_INIT == <<65535, 65535>>

\* the inner "for (int i = 0; i < 8; ++i)" loops, n rounds left
RECURSIVE Crc8Rounds(_, _)
Crc8Rounds(crc, n) ==
    IF n = 0 THEN crc
    ELSE Crc8Rounds(IF crc >= 128 THEN Xor8((crc * 2) % 256, SAE_J1850_POLY)
                    ELSE (crc * 2) % 256, n - 1)

RECURSIVE Crc16Rounds(_, _)
Crc16Rounds(crc, n) ==
    IF n = 0 THEN crc
    ELSE Crc16Rounds(IF crc >= 32768 THEN Xor16((crc * 2) % 65536, ITU_X25_POLY)
                     ELSE (crc * 2) % 65536, n - 1)

RECURSIVE Crc32Rounds(_, _)
Crc32Rounds(crc, n) ==
    IF n = 0 THEN crc
    ELSE Crc32Rounds(IF crc[1] >= 32768 THEN WXor(WShl1(crc), CRC32_POLY)
                     ELSE WShl1(crc), n - 1)

\* the eight rounds applied to every register value, tabulated once
Crc8StepTable == Tabulate([c \in 0 .. 255 |-> Crc8Rounds(c, 8)])
Crc16StepTable == Tabulate([c \in 0 .. 65535 |-> Crc16Rounds(c, 8)])

\* init_crc32_table: crc32_table[i] starts from i << 24
crc32_table == Tabulate([i \in 0 .. 255 |-> Crc32Rounds(<<i * 256, 0>>, 8)])

\* calculate_crc8_sae_j1850 continued from crc over data[k ..]; crc is a uint8_t
RECURSIVE Crc8From(_, _, _)
Crc8From(crc, data, k) ==
    IF k > Len(data) THEN crc
    ELSE LET next == Crc8StepTable[Xor8(crc, data[k])]
         IN  IF next \in 0 .. 255 THEN Crc8From(next, data, k + 1) ELSE U8(next)

calculate_crc8_sae_j1850(data) == Crc8From(SAE_J1850_INIT, data, 1)

\* calculate_crc16_itu_x25 continued from crc over data[k ..]; crc is a uint16_t
RECURSIVE Crc16From(_, _, _)
Crc16From(crc, data, k) ==
    IF k > Len(data) THEN crc
    ELSE LET next == Crc16StepTable[Xor16(crc, data[k] * 256)]
         IN  IF next \in 0 .. 65535 THEN Crc16From(next, data, k + 1) ELSE U16(next)

calculate_crc16_itu_x25(data) == Crc16From(ITU_X25_INIT, data, 1)

\* calculate_crc32 continued from crc over data[k ..]; crc is a uint32_t
RECURSIVE Crc32From(_, _, _)
Crc32From(crc, data, k) ==
    IF k > Len(data) THEN crc
    ELSE LET next == WXor(WShl8(crc), crc32_table[Xor8(crc[1] \div 256, data[k])])
         IN  IF next[1] \in 0 .. 65535 /\ next[2] \in 0 .. 65535
             THEN Crc32From(next, data, k + 1)
             ELSE <<U16(next[1]), U16(next[2])>>

calculate_crc32(data) == Crc32From(CRC32_INIT, data, 1)

\* E2ECRC::calculate_crc, a uint32_t
calculate_crc(data, offset, length, crc_type) ==
    IF offset + length > Len(data) THEN WZero
    ELSE LET slice == SubSeq(data, offset + 1, offset + length)
         IN  CASE crc_type = 0 -> <<0, calculate_crc8_sae_j1850(slice)>>
               [] crc_type = 1 -> <<0, calculate_crc16_itu_x25(slice)>>
               [] crc_type = 2 -> calculate_crc32(slice)
               [] OTHER -> WZero

----------------------------------------------------------------------------
(* Reference profile: src/e2e/e2e_profiles/standard_profile.cpp            *)

ROLLOVER_WINDOW == 10

\* variant of CrcData that leaves the payload out of the CRC
CrcDataHeaderOnly(msg, length) ==
    MessageIdBytes(msg) \o BE32(length) \o RequestIdBytes(msg)
    \o <<msg.protocol_version, msg.interface_version, msg.message_type, msg.return_code>>

\* the bytes the CRC covers, with the given value in the length position
CrcData(msg, length) ==
    MessageIdBytes(msg) \o BE32(length) \o RequestIdBytes(msg)
    \o <<msg.protocol_version, msg.interface_version, msg.message_type, msg.return_code>>
    \o msg.payload

\* low 16 bits of the steady clock's milliseconds
FreshnessOf(now) == now % 65536

\* the counter block of BasicE2EProfile::protect: the new last_counter
ProtectCounter(last_counter, max_counter_value) ==
    IF WGt(WInc(last_counter), max_counter_value) THEN WOne ELSE WInc(last_counter)

\* BasicE2EProfile::protect: [result, msg, counters, freshness_values]
Protect(counters, freshness_values, msg, config, now) ==
    LET length == 8 + E2E_HEADER_SIZE + Len(msg.payload)
        data == CrcData(msg, length)
        crc == IF config.enable_crc
               THEN calculate_crc(data, 0, Len(data), config.crc_type) ELSE WZero
        new_counter == ProtectCounter(counters[config.data_id], config.max_counter_value)
        counter == IF config.enable_counter THEN new_counter ELSE WZero
        freshness == IF config.enable_freshness THEN FreshnessOf(now) ELSE 0
    IN  [result |-> "SUCCESS",
         msg |-> SetE2EHeader(msg, E2EHeader(crc, counter, config.data_id, freshness)),
         counters |-> IF config.enable_counter
                      THEN [counters EXCEPT ![config.data_id] = new_counter]
                      ELSE counters,
         freshness_values |-> IF config.enable_freshness
                              THEN [freshness_values EXCEPT ![config.data_id] = freshness]
                              ELSE freshness_values]

\* the CRC comparison of BasicE2EProfile::validate
MaskCrc(crc, crc_type) ==
    CASE crc_type = 0 -> <<0, crc[2] % 256>>
      [] crc_type = 1 -> <<0, crc[2]>>
      [] OTHER -> crc

CrcMatches(msg, config) ==
    LET data == CrcData(msg, msg.length)
        expected_crc == calculate_crc(data, 0, Len(data), config.crc_type)
    IN  MaskCrc(msg.e2e_header.crc, config.crc_type) = MaskCrc(expected_crc, config.crc_type)

\* "last_counter > config.max_counter_value - 10" in uint32_t arithmetic
NearRollover(last_counter, max_counter_value) ==
    WGt(last_counter, WSub(max_counter_value, ROLLOVER_WINDOW))

\* the counter decision of BasicE2EProfile::validate
CounterValid(counter, last_counter, max_counter_value) ==
    IF last_counter = WZero
    THEN WGe(counter, WOne) /\ WLe(counter, max_counter_value)
    ELSE IF counter = last_counter THEN TRUE
    ELSE IF WGt(counter, last_counter) THEN TRUE
    ELSE NearRollover(last_counter, max_counter_value)
         /\ WGe(counter, WOne) /\ WLe(counter, W32(ROLLOVER_WINDOW))

\* the last_counter update of BasicE2EProfile::validate after an accepted counter
CounterUpdate(counter, last_counter, max_counter_value) ==
    IF \/ WGt(counter, last_counter)
       \/ (NearRollover(last_counter, max_counter_value)
           /\ WLe(counter, W32(ROLLOVER_WINDOW)))
    THEN counter ELSE last_counter

\* variant of FreshnessStale whose wrap-around branch drops the "+ 1"
FreshnessStaleOffByOne(header_freshness, config, now) ==
    LET current_freshness == FreshnessOf(now)
        freshness_diff == IF current_freshness >= header_freshness
                          THEN current_freshness - header_freshness
                          ELSE U16((65535 - header_freshness) + current_freshness)
        timeout_units == U16(config.freshness_timeout_ms)
    IN  freshness_diff > timeout_units /\ freshness_diff < 65535 - timeout_units

\* the freshness test of BasicE2EProfile::validate
FreshnessStale(header_freshness, config, now) ==
    LET current_freshness == FreshnessOf(now)
        freshness_diff == IF current_freshness >= header_freshness
                          THEN current_freshness - header_freshness
                          ELSE U16((65535 - header_freshness) + current_freshness + 1)
        timeout_units == U16(config.freshness_timeout_ms)
    IN  freshness_diff > timeout_units /\ freshness_diff < 65535 - timeout_units

\* BasicE2EProfile::validate: [result, counters]
Validate(counters, msg, config, now) ==
    LET header == msg.e2e_header
        last_counter == counters[config.data_id]
    IN  IF ~header.has
        THEN [result |-> "INVALID_ARGUMENT", counters |-> counters]
        ELSE IF header.data_id # config.data_id
        THEN [result |-> "INVALID_ARGUMENT", counters |-> counters]
        ELSE IF config.enable_crc /\ ~CrcMatches(msg, config)
        THEN [result |-> "INVALID_ARGUMENT", counters |-> counters]
        ELSE IF config.enable_counter
                /\ ~CounterValid(header.counter, last_counter, config.max_counter_value)
        THEN [result |-> "INVALID_ARGUMENT", counters |-> counters]
        ELSE LET after == IF config.enable_counter
                          THEN [counters EXCEPT ![config.data_id] =
                                   CounterUpdate(header.counter, last_counter,
                                                 config.max_counter_value)]
                          ELSE counters
             IN  IF config.enable_freshness
                    /\ FreshnessStale(header.freshness_value, config, now)
                 THEN [result |-> "TIMEOUT", counters |-> after]
                 ELSE [result |-> "SUCCESS", counters |-> after]

----------------------------------------------------------------------------
(* Codec inputs                                                            *)

\* payloads offered to the codec; two of them have the 12-byte shape of an E2E header
CodecPayloads ==
    { <<>>, <<1, 2, 3, 4>>, <<170, 170, 170, 170, 170, 170, 170, 170, 170, 170, 170, 170>>,
      <<18, 52, 86, 120, 0, 0, 0, 7, 18, 52, 86, 120>>,
      <<18, 52, 86, 120, 0, 0, 0, 7, 18, 52, 86, 120, 9>> }

\* E2E headers offered to the codec: the one of E2ETest.MessageSerializationWithE2E,
\* a header as protect writes it with the counter disabled, one with data_id 0,
\* one whose freshness bytes are equal
CodecHeaders ==
    { NoE2EHeader,
      E2EHeader(<<4660, 22136>>, <<43981, 61184>>, 4660, 22136),
      E2EHeader(W32(43981), WZero, 4660, 22136),
      E2EHeader(W32(43981), WOne, 0, 22136),
      E2EHeader(W32(43981), WOne, 4660, 257) }

CodecTypes == {0, 2, 128, 32}
CodecReturnCodes == {0, 15}
CodecServiceIds == {4660, 65535}

CodecMessages ==
    { LET m0 == NewMessage(sid, 22136, 39612, 57072, t, rc)
          m1 == SetPayload(m0, p)
      IN  IF h.has THEN SetE2EHeader(m1, h) ELSE m1 :
        sid \in CodecServiceIds, t \in CodecTypes, rc \in CodecReturnCodes,
        p \in CodecPayloads, h \in CodecHeaders }

----------------------------------------------------------------------------
(* Codec actions                                                           *)

MsgIdle ==
    /\ msg_obj = DefaultMessage
    /\ wire = <<>>
    /\ rx = [ok |-> FALSE, msg |-> DefaultMessage]
    /\ msg_pc = "idle"

\* the application builds a message through the constructor and the setters
MsgBuild ==
    /\ msg_pc \in {"idle", "deserialized"}
    /\ \E m \in CodecMessages : msg_obj' = m
    /\ msg_pc' = "built"
    /\ UNCHANGED <<netVars, wire, rx, tpVars, e2eVars, regVars>>

MsgSerialize ==
    /\ msg_pc = "built"
    /\ wire' = Serialize(msg_obj)
    /\ msg_pc' = "serialized"
    /\ UNCHANGED <<netVars, msg_obj, rx, tpVars, e2eVars, regVars>>

\* a fresh Message object deserializes the bytes
MsgDeserialize ==
    /\ msg_pc = "serialized"
    /\ rx' = Deserialize(DefaultMessage, wire)
    /\ msg_pc' = "deserialized"
    /\ UNCHANGED <<netVars, msg_obj, wire, tpVars, e2eVars, regVars>>

----------------------------------------------------------------------------
(* TP inputs and actions                                                   *)

MaxTpPayload == 52
MaxTpCalls == 5
MaxTpMessages == 2

TpSegmentSizes == {24, 32}

\* payload bytes that differ from position to position
TpPayload(n) == [i \in 1 .. n |-> (37 * i + 11) % 256]

TpPayloadLens == {n \in 0 .. MaxTpPayload : n % 8 = 0 \/ n % 16 = 9 \/ n = MaxTpPayload}

TpMessages == {SetPayload(NewMessage(4660, 22136, 43981, 1, 0, 0), TpPayload(n)) :
                  n \in TpPayloadLens}

\* a segmenter with the default max_segment_size and a max_message_size above
\* 64 KiB, and a payload of 64 KiB
TpLargeConfig ==
    [max_segment_size |-> 1392, max_message_size |-> 2 * (UINT16_MAX + 1),
     reassembly_timeout |-> 100]

TpLargeMessages ==
    {SetPayload(NewMessage(4660, 22136, 43981, 1, 0, 0), TpPayload(UINT16_MAX + 1))}

TpNoCall == [ret |-> FALSE, complete_message |-> <<>>]

TprNoSegment ==
    [header |-> [message_type |-> "NONE", sequence_number |-> 0, segment_offset |-> 0,
                 segment_length |-> 0, message_length |-> 0],
     payload |-> <<>>]

TprNoCall ==
    [op |-> "none", segment |-> TprNoSegment, ret |-> FALSE, complete_message |-> <<>>,
     before |-> <<>>, at |-> 0]

TpIdle ==
    /\ tp_config = [max_segment_size |-> 24, max_message_size |-> MaxTpPayload - 4,
                    reassembly_timeout |-> 100]
    /\ next_sequence_number_ = 0
    /\ tp_msg = DefaultMessage
    /\ tp_result = "NONE"
    /\ tp_segments = <<>>
    /\ reassembly_buffers_ = <<>>
    /\ tp_delivered = {}
    /\ tp_calls = 0
    /\ tp_last = TpNoCall
    /\ tp_completed = {}
    /\ tp_count = 0
    /\ tp_now = 0
    /\ tp_rx = TprNoCall
    /\ tp_ticks = 0

\* a segmenter and a reassembler constructed with the same TpConfig
TpInit ==
    /\ tp_config \in [max_segment_size : TpSegmentSizes,
                      max_message_size : {MaxTpPayload - 4},
                      reassembly_timeout : {100}]
    /\ next_sequence_number_ = 0
    /\ tp_msg = DefaultMessage
    /\ tp_result = "NONE"
    /\ tp_segments = <<>>
    /\ reassembly_buffers_ = <<>>
    /\ tp_delivered = {}
    /\ tp_calls = 0
    /\ tp_last = TpNoCall
    /\ tp_completed = {}
    /\ tp_count = 0
    /\ tp_now = 0
    /\ tp_rx = TprNoCall
    /\ tp_ticks = 0

\* the sender calls segment_message on a message
TpSegmentMessage ==
    /\ tp_count < MaxTpMessages
    /\ \E m \in TpMessages \cup TpLargeMessages :
        LET r == SegmentMessage(tp_config, m, next_sequence_number_)
        IN  /\ tp_msg' = m
            /\ tp_result' = r.result
            /\ tp_segments' = r.segments
            /\ next_sequence_number_' = r.next
    /\ tp_delivered' = {}
    /\ tp_calls' = 0
    /\ tp_last' = TpNoCall
    /\ tp_completed' = {}
    /\ tp_count' = tp_count + 1
    /\ UNCHANGED <<netVars, tp_config, reassembly_buffers_, tp_now, tp_rx, tp_ticks,
                   msgVars, e2eVars, regVars>>

\* the receiver passes one of the segments (any of them, again or not) to
\* process_segment
TpProcessSegment ==
    /\ tp_calls < MaxTpCalls
    /\ \E i \in 1 .. Len(tp_segments) :
        LET r == ProcessSegment(tp_config, reassembly_buffers_, tp_segments[i], tp_now)
        IN  /\ reassembly_buffers_' = r.buffers
            /\ tp_last' = [ret |-> r.ret, complete_message |-> r.complete_message]
            /\ tp_completed' = IF r.ret /\ r.buffers # reassembly_buffers_
                                  /\ tp_segments[i].header.sequence_number
                                         \notin DOMAIN r.buffers
                               THEN tp_completed \cup {r.complete_message}
                               ELSE tp_completed
            /\ tp_delivered' = tp_delivered \cup {i}
    /\ tp_calls' = tp_calls + 1
    /\ UNCHANGED <<netVars, tp_config, next_sequence_number_, tp_msg, tp_result, tp_segments,
                   tp_count, tp_now, tp_rx, tp_ticks, msgVars, e2eVars, regVars>>

----------------------------------------------------------------------------
(* TP reassembler fed from the network: src/tp/tp_reassembler.cpp          *)

MaxTprCalls == 4
MaxTprTicks == 2

\* steady_clock ticks (microseconds here) per millisecond
MICROSECONDS_PER_MS == 1000

\* the clock advances between two calls, in microseconds
TprTickSteps == {500, 100000}

\* the 16 bytes of a SOME/IP header at the start of a first segment
TprHeaderBytes == [i \in 1 .. 16 |-> 0]

\* n data bytes of sender variant v
TprData(v, n) == [i \in 1 .. n |-> 16 * v + i]

\* segments the validation accepts: the three segments of a 24-byte message
\* with sequence number 0 (first and consecutive segment in two variants with
\* different bytes), a first segment with sequence number 1, and a first
\* segment without payload
TprValidSegments ==
    { TpSegmentRec("FIRST_SEGMENT", 0, 0, 20, 24, TprHeaderBytes \o TprData(v, 4)) :
        v \in {1, 2} }
    \cup { TpSegmentRec("CONSECUTIVE_SEGMENT", 0, 4, 10, 24, TprData(v, 10)) : v \in {1, 2} }
    \cup { TpSegmentRec("LAST_SEGMENT", 0, 14, 10, 24, TprData(1, 10)),
           TpSegmentRec("FIRST_SEGMENT", 1, 0, 20, 24, TprHeaderBytes \o TprData(1, 4)),
           TpSegmentRec("FIRST_SEGMENT", 0, 0, 0, 24, <<>>) }

\* segments that break one of the three bounds of validate_segment: payload
\* size # segment_length, message_length > max_message_size,
\* segment_offset + segment_length > message_length
TprInvalidSegments ==
    { TpSegmentRec("CONSECUTIVE_SEGMENT", 0, 4, 9, 24, TprData(1, 10)),
      TpSegmentRec("FIRST_SEGMENT", 1, 0, 20, 26, TprHeaderBytes \o TprData(1, 4)),
      TpSegmentRec("LAST_SEGMENT", 0, 16, 10, 24, TprData(1, 10)) }

TprSegments == TprValidSegments \cup TprInvalidSegments

\* TpReassembler::is_reassembling
is_reassembling(buffers, message_id) == message_id \in DOMAIN buffers

\* duration_cast<milliseconds>(now - start_time)
ElapsedMs(now, start_time) == (now - start_time) \div MICROSECONDS_PER_MS

\* cleanup_timed_out_buffers with >= in place of >
CleanupAtTimeout(buffers, cfg, now) ==
    [ s \in { t \in DOMAIN buffers :
                ~(ElapsedMs(now, buffers[t].start_time) >= cfg.reassembly_timeout) }
        |-> buffers[s] ]

\* TpReassembler::cleanup_timed_out_buffers
cleanup_timed_out_buffers(buffers, cfg, now) ==
    [ s \in { t \in DOMAIN buffers :
                ~(ElapsedMs(now, buffers[t].start_time) > cfg.reassembly_timeout) }
        |-> buffers[s] ]

\* TpReassembler::process_timeouts (cleanup_completed_buffers does nothing)
process_timeouts(buffers, cfg, now) == cleanup_timed_out_buffers(buffers, cfg, now)

\* a reassembler constructed with max_message_size 24 and a timeout of 100 ms
TprInit ==
    /\ tp_config = [max_segment_size |-> 24, max_message_size |-> 24,
                    reassembly_timeout |-> 100]
    /\ next_sequence_number_ = 0
    /\ tp_msg = DefaultMessage
    /\ tp_result = "NONE"
    /\ tp_segments = <<>>
    /\ reassembly_buffers_ = <<>>
    /\ tp_delivered = {}
    /\ tp_calls = 0
    /\ tp_last = TpNoCall
    /\ tp_completed = {}
    /\ tp_count = 0
    /\ tp_now = 0
    /\ tp_rx = TprNoCall
    /\ tp_ticks = MaxTprTicks

\* a segment taken from the network is passed to process_segment
TprProcessSegment ==
    /\ tp_calls < MaxTprCalls
    /\ \E segment \in TprSegments :
        LET r == ProcessSegment(tp_config, reassembly_buffers_, segment, tp_now)
        IN  /\ reassembly_buffers_' = r.buffers
            /\ tp_last' = [ret |-> r.ret, complete_message |-> r.complete_message]
            /\ tp_rx' = [op |-> "process_segment", segment |-> segment, ret |-> r.ret,
                         complete_message |-> r.complete_message,
                         before |-> reassembly_buffers_, at |-> tp_now]
    /\ tp_calls' = tp_calls + 1
    /\ UNCHANGED <<netVars, tp_config, next_sequence_number_, tp_msg, tp_result, tp_segments,
                   tp_delivered, tp_completed, tp_count, tp_now, tp_ticks,
                   msgVars, e2eVars, regVars>>

\* the owner calls process_timeouts
TprProcessTimeouts ==
    /\ tp_calls < MaxTprCalls
    /\ reassembly_buffers_' = process_timeouts(reassembly_buffers_, tp_config, tp_now)
    /\ tp_rx' = [TprNoCall EXCEPT !.op = "process_timeouts", !.ret = TRUE,
                                  !.before = reassembly_buffers_, !.at = tp_now]
    /\ tp_calls' = tp_calls + 1
    /\ UNCHANGED <<netVars, tp_config, next_sequence_number_, tp_msg, tp_result, tp_segments,
                   tp_delivered, tp_last, tp_completed, tp_count, tp_now, tp_ticks,
                   msgVars, e2eVars, regVars>>

\* time passes
TprTick ==
    /\ tp_ticks > 0
    /\ \E step \in TprTickSteps : tp_now' = tp_now + step
    /\ tp_ticks' = tp_ticks - 1
    /\ UNCHANGED <<netVars, tp_config, next_sequence_number_, tp_msg, tp_result, tp_segments,
                   reassembly_buffers_, tp_delivered, tp_calls, tp_last, tp_completed,
                   tp_count, tp_rx, msgVars, e2eVars, regVars>>

----------------------------------------------------------------------------
(* E2E inputs and actions                                                  *)

MaxCounterOps == 6
MaxWireOps == 3
MaxCrcOps == 2
MaxFreshOps == 2
MaxFreshTicks == 3

E2EDataIds == {0, 4660}

\* E2EConfig with the defaults of include/e2e/e2e_config.h
DefaultE2EConfig ==
    [data_id |-> 0, enable_crc |-> TRUE, enable_counter |-> TRUE,
     enable_freshness |-> TRUE, max_counter_value |-> WMax,
     freshness_timeout_ms |-> 1000, crc_type |-> 1]

\* the message the sender protects, before its payload is set
E2EBaseMessage == NewMessage(4660, 22136, 43981, 1, 0, 0)

E2ENoCall ==
    [op |-> "none", result |-> "NONE", counter |-> WZero, last_counter |-> WZero,
     stored |-> WZero, prev |-> WZero, direct |-> FALSE, checked |-> FALSE,
     elapsed |-> 0, stage |-> "none"]

\* a freshly constructed BasicE2EProfile and no message yet
E2EFresh ==
    /\ counters_ = [d \in E2EDataIds |-> WZero]
    /\ freshness_values_ = [d \in E2EDataIds |-> 0]
    /\ e2e_msg = DefaultMessage
    /\ e2e_cfg = DefaultE2EConfig
    /\ e2e_stage = "none"
    /\ e2e_sent = [msg |-> DefaultMessage, now |-> 0]
    /\ e2e_wire_ok = FALSE
    /\ e2e_last = E2ENoCall

E2EIdle ==
    /\ E2EFresh
    /\ e2e_now = 0
    /\ e2e_budget = 0
    /\ e2e_ticks = 0

\* the sender sets a payload and calls protect with one of the configs
E2EProtect(Configs, Payloads) ==
    /\ e2e_budget > 0
    /\ \E config \in Configs, p \in Payloads :
        \E r \in {Protect(counters_, freshness_values_, SetPayload(E2EBaseMessage, p),
                         config, e2e_now)} :
            /\ counters_' = r.counters
            /\ freshness_values_' = r.freshness_values
            /\ e2e_msg' = r.msg
            /\ e2e_cfg' = config
            /\ e2e_sent' = [msg |-> r.msg, now |-> e2e_now]
            /\ e2e_last' = [op |-> "protect", result |-> r.result,
                            counter |-> r.msg.e2e_header.counter,
                            last_counter |-> counters_[config.data_id],
                            stored |-> r.counters[config.data_id],
                            prev |-> e2e_last.counter,
                            direct |-> e2e_last.op = "protect" /\ e2e_cfg = config,
                            checked |-> config.enable_counter,
                            elapsed |-> 0, stage |-> "protected"]
    /\ e2e_stage' = "protected"
    /\ e2e_wire_ok' = FALSE
    /\ e2e_budget' = e2e_budget - 1
    /\ UNCHANGED <<netVars, e2e_now, e2e_ticks, msgVars, tpVars, regVars>>

\* the receiver calls validate with the config of the protect call
E2EValidate ==
    /\ e2e_budget > 0
    /\ e2e_stage # "none"
    /\ \E r \in {Validate(counters_, e2e_msg, e2e_cfg, e2e_now)},
          header \in {e2e_msg.e2e_header} :
           /\ counters_' = r.counters
           /\ e2e_last' = [op |-> "validate", result |-> r.result,
                           counter |-> header.counter,
                           last_counter |-> counters_[e2e_cfg.data_id],
                           stored |-> r.counters[e2e_cfg.data_id],
                           prev |-> e2e_last.counter,
                           direct |-> /\ e2e_last.op = "protect"
                                      /\ e2e_stage = "protected"
                                      /\ e2e_now = e2e_sent.now,
                           checked |-> /\ header.has
                                       /\ header.data_id = e2e_cfg.data_id
                                       /\ (e2e_cfg.enable_crc => CrcMatches(e2e_msg, e2e_cfg))
                                       /\ e2e_cfg.enable_counter,
                           elapsed |-> e2e_now - e2e_sent.now, stage |-> e2e_stage]
    /\ e2e_budget' = e2e_budget - 1
    /\ UNCHANGED <<netVars, freshness_values_, e2e_now, e2e_msg, e2e_cfg, e2e_stage, e2e_sent,
                   e2e_wire_ok, e2e_ticks, msgVars, tpVars, regVars>>

\* one payload byte is set to a different value between protect and validate
E2ETamper ==
    /\ e2e_stage = "protected"
    /\ \E i \in 1 .. Len(e2e_msg.payload), b \in 0 .. 255 :
        /\ b # e2e_msg.payload[i]
        /\ e2e_msg' = SetPayload(e2e_msg, [e2e_msg.payload EXCEPT ![i] = b])
    /\ e2e_stage' = "tampered"
    /\ UNCHANGED <<netVars, counters_, freshness_values_, e2e_now, e2e_cfg, e2e_sent, e2e_wire_ok,
                   e2e_last, e2e_budget, e2e_ticks, msgVars, tpVars, regVars>>

\* the message arrives with the counter of another sender: set_e2e_header with the
\* counter replaced
E2EReceiveCounter(Counters) ==
    /\ e2e_stage = "protected"
    /\ \E c \in Counters :
        /\ c # e2e_msg.e2e_header.counter
        /\ e2e_msg' = SetE2EHeader(e2e_msg, [e2e_msg.e2e_header EXCEPT !.counter = c])
    /\ e2e_stage' = "received"
    /\ UNCHANGED <<netVars, counters_, freshness_values_, e2e_now, e2e_cfg, e2e_sent, e2e_wire_ok,
                   e2e_last, e2e_budget, e2e_ticks, msgVars, tpVars, regVars>>

\* the protected message is serialized and a fresh Message deserializes the bytes
E2EWire ==
    /\ e2e_stage = "protected"
    /\ \E r \in {Deserialize(DefaultMessage, Serialize(e2e_msg))} :
           /\ e2e_msg' = r.msg
           /\ e2e_wire_ok' = r.ok
    /\ e2e_stage' = "wired"
    /\ UNCHANGED <<netVars, counters_, freshness_values_, e2e_now, e2e_cfg, e2e_sent,
                   e2e_last, e2e_budget, e2e_ticks, msgVars, tpVars, regVars>>

\* the steady clock advances while the message is on its way
E2ETick(Steps) ==
    /\ e2e_ticks > 0
    /\ e2e_stage = "protected"
    /\ \E d \in Steps : e2e_now' = e2e_now + d
    /\ e2e_ticks' = e2e_ticks - 1
    /\ UNCHANGED <<netVars, counters_, freshness_values_, e2e_msg, e2e_cfg, e2e_stage, e2e_sent,
                   e2e_wire_ok, e2e_last, e2e_budget, msgVars, tpVars, regVars>>

\* counter scenario: small and full-width max_counter_value
CounterConfigs ==
    {[DefaultE2EConfig EXCEPT !.data_id = 4660, !.max_counter_value = m] :
        m \in {W32(5), W32(20), WMax}}
CounterPayloads == {<<1, 2>>}
ReceivedCounters ==
    {W32(c) : c \in {0, 1, 2, 4, 5, 6, 10, 11, 12, 15, 20, 21}}
    \cup {<<65535, 65525>>, <<65535, 65526>>, <<65535, 65534>>, <<65535, 65535>>}

\* wire scenario: the default data_id 0 and another one, every crc_type
WireConfigs ==
    {[DefaultE2EConfig EXCEPT !.data_id = d, !.crc_type = t] :
        d \in E2EDataIds, t \in 0 .. 2}
WirePayloads == {<<>>, <<1, 2, 3, 4>>, <<222, 173, 190, 239, 0, 1, 2, 3, 4, 5, 6, 7>>}
WireStartTimes == {1000, 257, 123456}

\* CRC scenario
CrcConfigs ==
    {[DefaultE2EConfig EXCEPT !.data_id = 4660, !.crc_type = t] : t \in 0 .. 2}
CrcPayloads == {<<0>>, <<1, 2, 255>>}

\* freshness scenario
FreshConfigs ==
    {[DefaultE2EConfig EXCEPT !.data_id = 4660, !.freshness_timeout_ms = t] :
        t \in {0, 1000, 40000, 65535, 70000}}
FreshPayloads == {<<1>>}
FreshSteps == {1, 1000, 4000, 5600, 60000}
FreshStartTimes == {0, 65000}

\* replay-window scenario: a message protected by the sender arrives late
\* and with the counter of another sender
MaxReplayOps == 3
MaxReplayTicks == 1
ReplayConfigs ==
    {[DefaultE2EConfig EXCEPT !.data_id = 4660, !.max_counter_value = m] :
        m \in {W32(20), WMax}}
ReplayPayloads == {<<1>>}
ReplayCounters == {W32(c) : c \in {0, 1, 2, 5, 15}}
ReplaySteps == {1, 5600}

----------------------------------------------------------------------------
(* Profile registry: src/e2e/e2e_profile_registry.cpp, e2e_protection.cpp  *)

MaxProfileObjects == 2
MaxUserCalls == 1

RegIds == {0, 1}
RegNames == {"basic", "custom"}

\* f without the key k (std::unordered_map::erase)
MapErase(f, k) == [x \in DOMAIN f \ {k} |-> f[x]]
\* f with f[k] = v (std::unordered_map::operator[] and assignment)
MapPut(f, k, v) == [x \in DOMAIN f \cup {k} |-> IF x = k THEN v ELSE f[x]]

\* the object a std::unique_ptr owned is destroyed
Destroy(heap, ptr) == [heap EXCEPT ![ptr].alive = FALSE]

\* variant of register_profile without the name collision check
register_profile_id_check_only(by_id, by_name, heap, profile) ==
    IF profile = 0
    THEN [ret |-> FALSE, by_id |-> by_id, by_name |-> by_name, heap |-> heap]
    ELSE IF heap[profile].id \in DOMAIN by_id
    THEN [ret |-> FALSE, by_id |-> by_id, by_name |-> by_name,
          heap |-> Destroy(heap, profile)]
    ELSE [ret |-> TRUE,
          by_id |-> MapPut(by_id, heap[profile].id, profile),
          by_name |-> MapPut(by_name, heap[profile].name, profile),
          heap |-> heap]

\* E2EProfileRegistry::register_profile; profile is a pointer into heap, 0 is null.
\* The unique_ptr parameter dies with the call when it was not moved into the map.
register_profile(by_id, by_name, heap, profile) ==
    IF profile = 0
    THEN [ret |-> FALSE, by_id |-> by_id, by_name |-> by_name, heap |-> heap]
    ELSE IF heap[profile].id \in DOMAIN by_id
    THEN [ret |-> FALSE, by_id |-> by_id, by_name |-> by_name,
          heap |-> Destroy(heap, profile)]
    ELSE IF heap[profile].name \in DOMAIN by_name
    THEN [ret |-> FALSE, by_id |-> by_id, by_name |-> by_name,
          heap |-> Destroy(heap, profile)]
    ELSE [ret |-> TRUE,
          by_id |-> MapPut(by_id, heap[profile].id, profile),
          by_name |-> MapPut(by_name, heap[profile].name, profile),
          heap |-> heap]

\* E2EProfileRegistry::unregister_profile
unregister_profile(by_id, by_name, heap, profile_id) ==
    IF profile_id \notin DOMAIN by_id
    THEN [ret |-> FALSE, by_id |-> by_id, by_name |-> by_name, heap |-> heap]
    ELSE [ret |-> TRUE,
          by_id |-> MapErase(by_id, profile_id),
          by_name |-> MapErase(by_name, heap[by_id[profile_id]].name),
          heap |-> Destroy(heap, by_id[profile_id])]

\* E2EProfileRegistry::get_profile(uint32_t), get_profile(const std::string&)
get_profile(map, key) == IF key \in DOMAIN map THEN map[key] ELSE 0

\* E2EProfileRegistry::get_default_profile
get_default_profile(by_id) == get_profile(by_id, 0)

RegNoCall ==
    [op |-> "none", ret |-> FALSE, null |-> FALSE, id |-> 0, name |-> "basic",
     by_id |-> <<>>, by_name |-> <<>>]

UserNoCall == [op |-> "none", profile_id |-> 0, profile_name |-> "basic",
               result |-> "NONE", calls |-> 0]

\* what a call through a dangling E2EProfile* can produce
DanglingOutcomes == {"SUCCESS", "INVALID_ARGUMENT", "TIMEOUT", "CRASH"}

\* the registry singleton before any registration, no thread inside E2EProtection
RegIdle ==
    /\ profiles_by_id_ = <<>>
    /\ profiles_by_name_ = <<>>
    /\ reg_heap = <<>>
    /\ reg_last = RegNoCall
    /\ user_pc = "idle"
    /\ user_profile = 0
    /\ user_call = UserNoCall

\* a thread makes a profile with std::make_unique and registers it
RegRegister ==
    /\ Len(reg_heap) < MaxProfileObjects
    /\ \E id \in RegIds, name \in RegNames :
        \E r \in {register_profile(profiles_by_id_, profiles_by_name_,
                     Append(reg_heap, [id |-> id, name |-> name, alive |-> TRUE,
                                       calls |-> 0]),
                     Len(reg_heap) + 1)} :
            /\ profiles_by_id_' = r.by_id
            /\ profiles_by_name_' = r.by_name
            /\ reg_heap' = r.heap
            /\ reg_last' = [op |-> "register", ret |-> r.ret, null |-> FALSE, id |-> id,
                            name |-> name, by_id |-> profiles_by_id_,
                            by_name |-> profiles_by_name_]
    /\ UNCHANGED <<netVars, user_pc, user_profile, user_call, msgVars, tpVars, e2eVars>>

\* a thread registers a null E2EProfilePtr
RegRegisterNull ==
    /\ \E r \in {register_profile(profiles_by_id_, profiles_by_name_, reg_heap, 0)} :
        /\ profiles_by_id_' = r.by_id
        /\ profiles_by_name_' = r.by_name
        /\ reg_heap' = r.heap
        /\ reg_last' = [op |-> "register", ret |-> r.ret, null |-> TRUE, id |-> 0,
                        name |-> "basic", by_id |-> profiles_by_id_,
                        by_name |-> profiles_by_name_]
    /\ UNCHANGED <<netVars, user_pc, user_profile, user_call, msgVars, tpVars, e2eVars>>

RegUnregister ==
    /\ \E id \in RegIds :
        \E r \in {unregister_profile(profiles_by_id_, profiles_by_name_, reg_heap, id)} :
            /\ profiles_by_id_' = r.by_id
            /\ profiles_by_name_' = r.by_name
            /\ reg_heap' = r.heap
            /\ reg_last' = [op |-> "unregister", ret |-> r.ret, null |-> FALSE, id |-> id,
                            name |-> "basic", by_id |-> profiles_by_id_,
                            by_name |-> profiles_by_name_]
    /\ UNCHANGED <<netVars, user_pc, user_profile, user_call, msgVars, tpVars, e2eVars>>

\* another thread enters E2EProtection::protect or E2EProtection::validate
UserBegin ==
    /\ user_pc = "idle"
    /\ user_call.calls < MaxUserCalls
    /\ \E op \in {"protect", "validate"}, id \in RegIds, name \in RegNames :
        user_call' = [op |-> op, profile_id |-> id, profile_name |-> name,
                      result |-> "NONE", calls |-> user_call.calls + 1]
    /\ user_pc' = "by_id"
    /\ user_profile' = 0
    /\ UNCHANGED <<netVars, profiles_by_id_, profiles_by_name_, reg_heap, reg_last,
                   msgVars, tpVars, e2eVars>>

\* registry.get_profile(config.profile_id); with a profile, the virtual call starts
UserGetById ==
    /\ user_pc = "by_id"
    /\ user_profile' = get_profile(profiles_by_id_, user_call.profile_id)
    /\ user_pc' = IF user_profile' # 0 THEN "in_profile" ELSE "by_name"
    /\ UNCHANGED <<netVars, profiles_by_id_, profiles_by_name_, reg_heap, reg_last, user_call,
                   msgVars, tpVars, e2eVars>>

\* registry.get_profile(config.profile_name)
UserGetByName ==
    /\ user_pc = "by_name"
    /\ user_profile' = get_profile(profiles_by_name_, user_call.profile_name)
    /\ user_pc' = IF user_profile' # 0 THEN "in_profile" ELSE "default"
    /\ UNCHANGED <<netVars, profiles_by_id_, profiles_by_name_, reg_heap, reg_last, user_call,
                   msgVars, tpVars, e2eVars>>

\* registry.get_default_profile(); without a profile the call returns NOT_INITIALIZED
UserGetDefault ==
    /\ user_pc = "default"
    /\ user_profile' = get_default_profile(profiles_by_id_)
    /\ user_pc' = IF user_profile' # 0 THEN "in_profile" ELSE "idle"
    /\ user_call' = IF user_profile' # 0 THEN user_call
                    ELSE [user_call EXCEPT !.result = "NOT_INITIALIZED"]
    /\ UNCHANGED <<netVars, profiles_by_id_, profiles_by_name_, reg_heap, reg_last,
                   msgVars, tpVars, e2eVars>>

\* profile->protect or profile->validate returns; on a destroyed object the call is
\* undefined behaviour
UserReturn ==
    /\ user_pc = "in_profile"
    /\ IF reg_heap[user_profile].alive
       THEN /\ reg_heap' = [reg_heap EXCEPT ![user_profile].calls = 1]
            /\ user_call' = [user_call EXCEPT !.result = "SUCCESS"]
       ELSE /\ reg_heap' = reg_heap
            /\ \E outcome \in DanglingOutcomes :
                user_call' = [user_call EXCEPT !.result = outcome]
    /\ user_pc' = "idle"
    /\ user_profile' = 0
    /\ UNCHANGED <<netVars, profiles_by_id_, profiles_by_name_, reg_last, msgVars, tpVars, e2eVars>>

----------------------------------------------------------------------------
(* UDP transport: src/transport/udp_transport.cpp                          *)

MaxUdpDatagrams == 2

UdpNoSender == [address |-> "", port |-> 0]
UdpSenders == { [address |-> "127.0.0.1", port |-> 30501],
                [address |-> "127.0.0.1", port |-> 30502] }

\* datagrams on the network: two valid messages of different sizes, bytes
\* that are no message, and an empty datagram
UdpDatagramData ==
    { Serialize(NewMessage(4660, 1, 1, 1, 0, 0)),
      Serialize(SetPayload(NewMessage(4660, 2, 1, 2, 0, 0), <<222, 173, 190, 239>>)),
      <<1, 2, 3>>,
      <<>> }

UdpBufferSizes == {18, 64}

\* the socket create_socket and bind_socket leave behind
UdpNoSocket == [open |-> FALSE, rcv_shutdown |-> FALSE, queue |-> <<>>]
UdpOpenSocket == [open |-> TRUE, rcv_shutdown |-> FALSE, queue |-> <<>>]

\* shutdown(fd, SHUT_RDWR) without effect on a blocked reader
ShutdownSocketNoWake(sock) == sock

\* shutdown(fd, SHUT_RDWR): reads return 0 from now on, blocked readers wake
ShutdownSocket(sock) == [sock EXCEPT !.rcv_shutdown = TRUE]

\* close(fd): the descriptor is gone, queued datagrams are dropped
CloseSocket(sock) == [sock EXCEPT !.open = FALSE, !.queue = <<>>]

\* recvfrom into a buffer of size bytes: the datagram is cut to the buffer
RecvFrom(size, dgram) == Take(dgram.data, Min(size, Len(dgram.data)))

\* UdpTransport::receive_data on success: data.resize(received)
ReceiveData(buffer, dgram) ==
    LET got == RecvFrom(buffer.size, dgram)
    IN  [size |-> Len(got), data |-> got]

UdpIdle ==
    /\ udp_config = [blocking |-> TRUE, receive_buffer_size |-> 64]
    /\ running_ = FALSE
    /\ socket_fd_ = -1
    /\ udp_sock = UdpNoSocket
    /\ udp_buffer = [size |-> 0, data |-> <<>>]
    /\ udp_sender = UdpNoSender
    /\ receive_queue_ = <<>>
    /\ udp_pc = "none"
    /\ udp_rx = 0
    /\ udp_log = <<>>
    /\ udp_callbacks = <<>>
    /\ udp_stop_pc = "idle"
    /\ udp_stop_at = "none"
    /\ udp_arrivals = 0

\* the transport as constructed, with a listener set and not yet started
UdpConstructed ==
    /\ udp_config \in [blocking : BOOLEAN, receive_buffer_size : UdpBufferSizes]
    /\ running_ = FALSE
    /\ socket_fd_ = -1
    /\ udp_sock = UdpNoSocket
    /\ udp_buffer = [size |-> 0, data |-> <<>>]
    /\ udp_sender = UdpNoSender
    /\ receive_queue_ = <<>>
    /\ udp_pc = "none"
    /\ udp_rx = 0
    /\ udp_log = <<>>
    /\ udp_callbacks = <<>>
    /\ udp_stop_pc = "idle"
    /\ udp_stop_at = "none"
    /\ udp_arrivals = MaxUdpDatagrams

udpWorkerVars == <<udp_buffer, udp_sender, receive_queue_, udp_pc, udp_rx, udp_log,
                   udp_callbacks>>
udpOtherVars == <<msgVars, tpVars, e2eVars, regVars, sdsVars, sdcVars, mvVars, sdmVars, lateVars>>

\* UdpTransport::start: socket created and bound, worker thread started with
\* its buffer of receive_buffer_size bytes
UdpStart ==
    /\ ~running_ /\ udp_pc = "none" /\ udp_stop_pc = "idle"
    /\ udp_sock' = UdpOpenSocket
    /\ socket_fd_' = 3
    /\ running_' = TRUE
    /\ udp_pc' = "loop"
    /\ udp_buffer' = [size |-> udp_config.receive_buffer_size, data |-> <<>>]
    /\ UNCHANGED <<udp_config, udp_sender, receive_queue_, udp_rx, udp_log, udp_callbacks,
                   udp_stop_pc, udp_stop_at, udp_arrivals, udpOtherVars>>

\* a datagram reaches the bound socket
UdpArrive ==
    /\ udp_sock.open /\ udp_arrivals > 0
    /\ \E d \in UdpDatagramData, s \in UdpSenders :
        udp_sock' = [udp_sock EXCEPT !.queue = Append(@, [data |-> d, sender |-> s])]
    /\ udp_arrivals' = udp_arrivals - 1
    /\ UNCHANGED <<udp_config, running_, socket_fd_, udpWorkerVars, udp_stop_pc,
                   udp_stop_at, udpOtherVars>>

\* receive_loop: while (running_)
UdpLoopTest ==
    /\ udp_pc = "loop"
    /\ udp_pc' = IF running_ THEN "recv" ELSE "done"
    /\ udp_rx' = 0
    /\ UNCHANGED <<udp_config, running_, socket_fd_, udp_sock, udp_buffer, udp_sender,
                   receive_queue_, udp_log, udp_callbacks, udp_stop_pc, udp_stop_at,
                   udp_arrivals, udpOtherVars>>

\* receive_data: the worker enters recvfrom with the descriptor it reads from
\* socket_fd_; on a descriptor that is -1 or closed recvfrom fails with EBADF,
\* receive_data returns NOT_CONNECTED and the loop breaks
UdpRecvEnter ==
    /\ udp_pc = "recv"
    /\ udp_pc' = IF socket_fd_ >= 0 /\ udp_sock.open THEN "in_recv" ELSE "done"
    /\ UNCHANGED <<udp_config, running_, socket_fd_, udp_sock, udp_buffer, udp_sender,
                   receive_queue_, udp_rx, udp_log, udp_callbacks, udp_stop_pc,
                   udp_stop_at, udp_arrivals, udpOtherVars>>

\* recvfrom returns a datagram: receive_data records the sender and resizes
\* the buffer to the number of bytes received
UdpRecvDatagram ==
    /\ udp_pc = "in_recv"
    /\ udp_sock.queue # <<>>
    /\ LET dgram == Head(udp_sock.queue)
       IN  /\ udp_buffer' = ReceiveData(udp_buffer, dgram)
           /\ udp_sender' = dgram.sender
           /\ udp_log' = Append(udp_log, dgram)
    /\ udp_rx' = Len(udp_log) + 1
    /\ udp_sock' = [udp_sock EXCEPT !.queue = Tail(@)]
    /\ udp_pc' = "deser"
    /\ UNCHANGED <<udp_config, running_, socket_fd_, receive_queue_, udp_callbacks,
                   udp_stop_pc, udp_stop_at, udp_arrivals, udpOtherVars>>

\* recvfrom on a socket that was shut down returns 0: receive_data resizes
\* the buffer to 0 and returns SUCCESS
UdpRecvShutdown ==
    /\ udp_pc = "in_recv"
    /\ udp_sock.queue = <<>>
    /\ udp_sock.rcv_shutdown
    /\ udp_buffer' = [size |-> 0, data |-> <<>>]
    /\ udp_rx' = 0
    /\ udp_pc' = "deser"
    /\ UNCHANGED <<udp_config, running_, socket_fd_, udp_sock, udp_sender, receive_queue_,
                   udp_log, udp_callbacks, udp_stop_pc, udp_stop_at, udp_arrivals,
                   udpOtherVars>>

\* recvfrom fails without data: EAGAIN in non-blocking mode gives TIMEOUT and
\* a 10 ms sleep; EINTR gives NOT_CONNECTED and breaks the loop; any other
\* error is reported to on_error and the loop goes on
UdpRecvError ==
    /\ udp_pc = "in_recv"
    /\ udp_sock.queue = <<>>
    /\ ~udp_sock.rcv_shutdown
    /\ \E errno \in {"EAGAIN", "EINTR", "EIO"} :
        /\ errno = "EAGAIN" => ~udp_config.blocking
        /\ udp_pc' = IF errno = "EINTR" THEN "done"
                     ELSE IF udp_config.blocking THEN "loop" ELSE "sleep"
    /\ UNCHANGED <<udp_config, running_, socket_fd_, udp_sock, udp_buffer, udp_sender,
                   receive_queue_, udp_rx, udp_log, udp_callbacks, udp_stop_pc,
                   udp_stop_at, udp_arrivals, udpOtherVars>>

\* receive_loop: message->deserialize(buffer); on success the message is
\* pushed to receive_queue_
UdpDeserialize ==
    /\ udp_pc = "deser"
    /\ \E r \in {Deserialize(DefaultMessage, udp_buffer.data)} :
        IF r.ok
        THEN /\ receive_queue_' = Append(receive_queue_, r.msg)
             /\ udp_pc' = "callback"
        ELSE /\ receive_queue_' = receive_queue_
             /\ udp_pc' = "loop"
    /\ UNCHANGED <<udp_config, running_, socket_fd_, udp_sock, udp_buffer, udp_sender,
                   udp_rx, udp_log, udp_callbacks, udp_stop_pc, udp_stop_at,
                   udp_arrivals, udpOtherVars>>

\* receive_loop: listener_->on_message_received(message, sender) runs and
\* returns
UdpCallback ==
    /\ udp_pc = "callback"
    /\ udp_callbacks' = Append(udp_callbacks,
            [msg |-> receive_queue_[Len(receive_queue_)], sender |-> udp_sender,
             idx |-> udp_rx])
    /\ udp_pc' = "loop"
    /\ UNCHANGED <<udp_config, running_, socket_fd_, udp_sock, udp_buffer, udp_sender,
                   receive_queue_, udp_rx, udp_log, udp_stop_pc, udp_stop_at,
                   udp_arrivals, udpOtherVars>>

\* receive_loop: sleep_for(10 ms) ends
UdpSleep ==
    /\ udp_pc = "sleep"
    /\ udp_pc' = "loop"
    /\ UNCHANGED <<udp_config, running_, socket_fd_, udp_sock, udp_buffer, udp_sender,
                   receive_queue_, udp_rx, udp_log, udp_callbacks, udp_stop_pc,
                   udp_stop_at, udp_arrivals, udpOtherVars>>

\* UdpTransport::stop, first part: running_ = false
UdpStopBegin ==
    /\ udp_stop_pc = "idle"
    /\ running_
    /\ running_' = FALSE
    /\ udp_stop_pc' = "shutdown"
    /\ udp_stop_at' = udp_pc
    /\ UNCHANGED <<udp_config, socket_fd_, udp_sock, udpWorkerVars, udp_arrivals,
                   udpOtherVars>>

\* stop: shutdown(socket_fd_, SHUT_RDWR)
UdpStopShutdown ==
    /\ udp_stop_pc = "shutdown"
    /\ udp_sock' = IF socket_fd_ >= 0 THEN ShutdownSocket(udp_sock) ELSE udp_sock
    /\ udp_stop_pc' = IF socket_fd_ >= 0 THEN "close" ELSE "join"
    /\ UNCHANGED <<udp_config, running_, socket_fd_, udpWorkerVars, udp_stop_at,
                   udp_arrivals, udpOtherVars>>

\* stop: close(socket_fd_)
UdpStopClose ==
    /\ udp_stop_pc = "close"
    /\ udp_sock' = CloseSocket(udp_sock)
    /\ udp_stop_pc' = "clear"
    /\ UNCHANGED <<udp_config, running_, socket_fd_, udpWorkerVars, udp_stop_at,
                   udp_arrivals, udpOtherVars>>

\* stop: socket_fd_ = -1
UdpStopClear ==
    /\ udp_stop_pc = "clear"
    /\ socket_fd_' = -1
    /\ udp_stop_pc' = "join"
    /\ UNCHANGED <<udp_config, running_, udp_sock, udpWorkerVars, udp_stop_at,
                   udp_arrivals, udpOtherVars>>

\* stop: receive_thread_.join() returns once the worker has left its loop,
\* and stop returns SUCCESS
UdpStopJoin ==
    /\ udp_stop_pc = "join"
    /\ udp_pc = "done"
    /\ udp_stop_pc' = "returned"
    /\ UNCHANGED <<udp_config, running_, socket_fd_, udp_sock, udpWorkerVars, udp_stop_at,
                   udp_arrivals, udpOtherVars>>

UdpWorker ==
    \/ UdpLoopTest
    \/ UdpRecvEnter
    \/ UdpRecvDatagram
    \/ UdpRecvShutdown
    \/ UdpDeserialize
    \/ UdpCallback
    \/ UdpSleep

UdpStopping ==
    \/ UdpStopShutdown
    \/ UdpStopClose
    \/ UdpStopClear
    \/ UdpStopJoin

----------------------------------------------------------------------------
(* SD server: src/sd/sd_server.cpp                                         *)

MaxSdsCalls == 3
MaxSdsTimerRounds == 2
MaxSdsTimerCalls == 1

ANY_INSTANCE == 65535
UDP_PROTOCOL == 17

SdsServiceKeys == { <<4660, 1>>, <<4660, 2>>, <<22136, 1>> }

SdsInstances ==
    { [service_id |-> k[1], instance_id |-> k[2], major_version |-> 1, ttl_seconds |-> 30] :
        k \in SdsServiceKeys }

SdsEndpoints == {"127.0.0.1:30509"}

\* FindService entries that reach the server: any instance of an offered
\* service id, one instance, and an instance that is never offered
SdsFindKeys == { <<4660, ANY_INSTANCE>>, <<4660, 2>>, <<22136, 2>> }

SdsConfigs ==
    { [max_services |-> n, initial_delay |-> 100, repetition_multiplier |-> 2,
       repetition_max |-> 400, cyclic_offer |-> 150] : n \in {0, 1, 2} }

SdsMulticast == [address |-> "224.224.224.245", port |-> 30490]

\* the IPv4EndpointOption built from a unicast endpoint "ip:port": address
\* and port parsed from the string, protocol UDP
EndpointOption(unicast_endpoint) ==
    CASE unicast_endpoint = "127.0.0.1:30509" ->
            [type |-> "IPV4_ENDPOINT", address |-> "127.0.0.1", port |-> 30509,
             protocol |-> UDP_PROTOCOL]
      [] unicast_endpoint = "192.168.1.10:30510" ->
            [type |-> "IPV4_ENDPOINT", address |-> "192.168.1.10", port |-> 30510,
             protocol |-> UDP_PROTOCOL]

OfferEntry(service) ==
    [type |-> "OFFER_SERVICE", service_id |-> service.instance.service_id,
     instance_id |-> service.instance.instance_id,
     major_version |-> service.instance.major_version,
     ttl |-> service.instance.ttl_seconds, index1 |-> 0, index2 |-> 0]

StopOfferEntry(service) ==
    [type |-> "STOP_OFFER_SERVICE", service_id |-> service.instance.service_id,
     instance_id |-> service.instance.instance_id,
     major_version |-> service.instance.major_version,
     ttl |-> 0, index1 |-> 0, index2 |-> 0]

\* SdServerImpl::send_service_offer: the message handed to the transport;
\* by names the caller
send_service_offer(service, by) ==
    [by |-> by, dest |-> SdsMulticast, unicast |-> FALSE,
     entries |-> <<OfferEntry(service)>>,
     options |-> <<EndpointOption(service.unicast_endpoint)>>]

\* SdServerImpl::send_service_stop_offer
send_service_stop_offer(service, by) ==
    [by |-> by, dest |-> SdsMulticast, unicast |-> FALSE,
     entries |-> <<StopOfferEntry(service)>>, options |-> <<>>]

\* SdServerImpl::send_service_offer_to_client
send_service_offer_to_client(service, client) ==
    [by |-> "find", dest |-> client, unicast |-> TRUE,
     entries |-> <<OfferEntry(service)>>,
     options |-> <<EndpointOption(service.unicast_endpoint)>>]

\* UdpTransport::send_message: NOT_CONNECTED unless the transport runs
SendMessages(sent, transport_running, msgs) ==
    IF transport_running THEN sent \o msgs ELSE sent

\* std::find_if by service id alone
FindOfferedByServiceId(services, service_id, instance_id) ==
    LET hits == { i \in 1 .. Len(services) :
                    services[i].instance.service_id = service_id }
    IN  IF hits = {} THEN 0 ELSE CHOOSE i \in hits : \A j \in hits : i <= j

\* std::find_if over offered_services_ by (service_id, instance_id): the
\* position of the first hit, 0 for end()
FindOffered(services, service_id, instance_id) ==
    LET hits == { i \in 1 .. Len(services) :
                    /\ services[i].instance.service_id = service_id
                    /\ services[i].instance.instance_id = instance_id }
    IN  IF hits = {} THEN 0 ELSE CHOOSE i \in hits : \A j \in hits : i <= j

\* std::vector::erase(it)
EraseAt(services, i) ==
    SubSeq(services, 1, i - 1) \o SubSeq(services, i + 1, Len(services))

\* SdServerImpl::offer_service on the list: [ret, services]
offer_service(services, config, instance, unicast_endpoint, now) ==
    IF FindOffered(services, instance.service_id, instance.instance_id) # 0
    THEN [ret |-> FALSE, services |-> services]
    ELSE LET kept == IF Len(services) >= config.max_services /\ services # <<>>
                     THEN Tail(services)
                     ELSE services
             offered == [instance |-> instance, unicast_endpoint |-> unicast_endpoint,
                         last_offer_time |-> now]
         IN  [ret |-> TRUE, services |-> Append(kept, offered)]

\* SdServerImpl::stop_offer_service on the list: [ret, services, found]
stop_offer_service(services, service_id, instance_id) ==
    LET i == FindOffered(services, service_id, instance_id)
    IN  IF i = 0
        THEN [ret |-> FALSE, services |-> services, found |-> 0]
        ELSE [ret |-> TRUE, services |-> EraseAt(services, i), found |-> i]

\* SdServerImpl::send_periodic_offers: the offers sent
RECURSIVE PeriodicOffers(_, _, _)
PeriodicOffers(services, config, now) ==
    IF services = <<>>
    THEN <<>>
    ELSE (IF now - Head(services).last_offer_time >= config.cyclic_offer
          THEN <<send_service_offer(Head(services), "timer")>>
          ELSE <<>>) \o PeriodicOffers(Tail(services), config, now)

\* SdServerImpl::send_periodic_offers: the list with last_offer_time updated
send_periodic_offers(services, config, now) ==
    [ i \in 1 .. Len(services) |->
        IF now - services[i].last_offer_time >= config.cyclic_offer
        THEN [services[i] EXCEPT !.last_offer_time = now]
        ELSE services[i] ]

\* the update without the cap
NextOfferDelayUncapped(delay, config) == delay * config.repetition_multiplier

\* offer timer: the next delay
NextOfferDelay(delay, config) ==
    IF delay < config.repetition_max
    THEN Min(delay * config.repetition_multiplier, config.repetition_max)
    ELSE delay

\* SdServerImpl::send_stop_offer_messages
RECURSIVE send_stop_offer_messages(_)
send_stop_offer_messages(services) ==
    IF services = <<>>
    THEN <<>>
    ELSE <<send_service_stop_offer(Head(services), "shutdown")>>
         \o send_stop_offer_messages(Tail(services))

\* handle_find_service with the wildcard instance id not honoured
FindMatchExactInstance(services, find_entry) ==
    FindOffered(services, find_entry.service_id, find_entry.instance_id)

\* SdServerImpl::handle_find_service: the position of the first offered
\* service the find entry matches, 0 if none
FindMatch(services, find_entry) ==
    LET hits == { i \in 1 .. Len(services) :
                    /\ services[i].instance.service_id = find_entry.service_id
                    /\ \/ find_entry.instance_id = ANY_INSTANCE
                       \/ services[i].instance.instance_id = find_entry.instance_id }
    IN  IF hits = {} THEN 0 ELSE CHOOSE i \in hits : \A j \in hits : i <= j

\* stop_offer_timer returns at once
TimerNotJoined(pc) == TRUE

\* SdServerImpl::stop_offer_timer: join returns when the timer thread has
\* ended (or was never started)
TimerJoined(pc) == pc \in {"none", "done"}

SdsNoCall ==
    [op |-> "none", ret |-> FALSE, before |-> <<>>, after |-> <<>>, service_id |-> 0,
     instance_id |-> 0, sender |-> UdpNoSender, sent |-> <<>>]

SdsIdle ==
    /\ sds_config = [max_services |-> 1, initial_delay |-> 100, repetition_multiplier |-> 2,
                     repetition_max |-> 400, cyclic_offer |-> 150]
    /\ sds_running = FALSE
    /\ sds_transport = FALSE
    /\ offered_services_ = <<>>
    /\ next_offer_delay_ = 100
    /\ sds_now = 0
    /\ sds_sent = <<>>
    /\ sds_timer_pc = "none"
    /\ sds_shutdown_pc = "idle"
    /\ sds_snapshot = <<>>
    /\ sds_last = SdsNoCall
    /\ sds_budget = 0
    /\ sds_rounds = 0

\* the server as constructed
SdsConstructed ==
    /\ sds_config \in SdsConfigs
    /\ sds_running = FALSE
    /\ sds_transport = FALSE
    /\ offered_services_ = <<>>
    /\ next_offer_delay_ = sds_config.initial_delay
    /\ sds_now = 0
    /\ sds_sent = <<>>
    /\ sds_timer_pc = "none"
    /\ sds_shutdown_pc = "idle"
    /\ sds_snapshot = <<>>
    /\ sds_last = SdsNoCall
    /\ sds_budget = MaxSdsCalls
    /\ sds_rounds = MaxSdsTimerRounds

sdsOtherVars == <<msgVars, tpVars, e2eVars, regVars, udpVars, sdcVars, mvVars, sdmVars, lateVars>>

\* SdServerImpl::initialize: transport started, running_ set, timer started
SdsInitialize ==
    /\ ~sds_running /\ sds_shutdown_pc = "idle" /\ sds_timer_pc = "none"
    /\ sds_transport' = TRUE
    /\ sds_running' = TRUE
    /\ sds_timer_pc' = "test"
    /\ UNCHANGED <<sds_config, offered_services_, next_offer_delay_, sds_now, sds_sent,
                   sds_shutdown_pc, sds_snapshot, sds_last, sds_budget, sds_rounds,
                   sdsOtherVars>>

\* SdServerImpl::offer_service
SdsOfferService ==
    /\ sds_shutdown_pc = "idle" /\ sds_budget > 0
    /\ \E instance \in SdsInstances, endpoint \in SdsEndpoints :
        \E r \in {offer_service(offered_services_, sds_config, instance, endpoint, sds_now)} :
            /\ offered_services_' = r.services
            /\ sds_sent' = IF r.ret
                           THEN SendMessages(sds_sent, sds_transport,
                                    <<send_service_offer(r.services[Len(r.services)],
                                                         "offer_service")>>)
                           ELSE sds_sent
            /\ sds_last' = [op |-> "offer_service", ret |-> r.ret,
                            before |-> offered_services_, after |-> r.services,
                            service_id |-> instance.service_id,
                            instance_id |-> instance.instance_id,
                            sender |-> UdpNoSender,
                            sent |-> IF r.ret
                                     THEN <<send_service_offer(r.services[Len(r.services)],
                                                               "offer_service")>>
                                     ELSE <<>>]
    /\ sds_budget' = sds_budget - 1
    /\ UNCHANGED <<sds_config, sds_running, sds_transport, next_offer_delay_, sds_now,
                   sds_timer_pc, sds_shutdown_pc, sds_snapshot, sds_rounds, sdsOtherVars>>

\* SdServerImpl::stop_offer_service
SdsStopOfferService ==
    /\ sds_shutdown_pc = "idle" /\ sds_budget > 0
    /\ \E k \in SdsServiceKeys :
        \E r \in {stop_offer_service(offered_services_, k[1], k[2])} :
            /\ offered_services_' = r.services
            /\ sds_sent' = IF r.ret
                           THEN SendMessages(sds_sent, sds_transport,
                                    <<send_service_stop_offer(offered_services_[r.found],
                                                              "stop_offer_service")>>)
                           ELSE sds_sent
            /\ sds_last' = [op |-> "stop_offer_service", ret |-> r.ret,
                            before |-> offered_services_, after |-> r.services,
                            service_id |-> k[1], instance_id |-> k[2],
                            sender |-> UdpNoSender,
                            sent |-> IF r.ret
                                     THEN <<send_service_stop_offer(
                                                offered_services_[r.found],
                                                "stop_offer_service")>>
                                     ELSE <<>>]
    /\ sds_budget' = sds_budget - 1
    /\ UNCHANGED <<sds_config, sds_running, sds_transport, next_offer_delay_, sds_now,
                   sds_timer_pc, sds_shutdown_pc, sds_snapshot, sds_rounds, sdsOtherVars>>

\* process_sd_entries on the receive thread: one FindService entry of a
\* parsed SD message goes to handle_find_service
SdsHandleFindService ==
    /\ sds_transport /\ sds_budget > 0
    /\ \E k \in SdsFindKeys, sender \in UdpSenders :
        LET find_entry == [type |-> "FIND_SERVICE", service_id |-> k[1],
                           instance_id |-> k[2]]
            i == FindMatch(offered_services_, find_entry)
        IN  /\ sds_sent' = IF i # 0
                           THEN SendMessages(sds_sent, sds_transport,
                                    <<send_service_offer_to_client(offered_services_[i],
                                                                   sender)>>)
                           ELSE sds_sent
            /\ sds_last' = [op |-> "find_service", ret |-> i # 0,
                            before |-> offered_services_, after |-> offered_services_,
                            service_id |-> k[1], instance_id |-> k[2],
                            sender |-> sender,
                            sent |-> IF i # 0
                                     THEN <<send_service_offer_to_client(
                                                offered_services_[i], sender)>>
                                     ELSE <<>>]
    /\ sds_budget' = sds_budget - 1
    /\ UNCHANGED <<sds_config, sds_running, sds_transport, offered_services_,
                   next_offer_delay_, sds_now, sds_timer_pc, sds_shutdown_pc, sds_snapshot,
                   sds_rounds, sdsOtherVars>>

\* offer timer: while (running_)
SdsTimerTest ==
    /\ sds_timer_pc = "test"
    /\ sds_timer_pc' = IF sds_running THEN "sleep" ELSE "done"
    /\ UNCHANGED <<sds_config, sds_running, sds_transport, offered_services_,
                   next_offer_delay_, sds_now, sds_sent, sds_shutdown_pc, sds_snapshot,
                   sds_last, sds_budget, sds_rounds, sdsOtherVars>>

\* offer timer: sleep_for(next_offer_delay_) ends
SdsTimerSleep ==
    /\ sds_timer_pc = "sleep"
    /\ sds_rounds > 0 \/ ~sds_running
    /\ sds_now' = IF sds_running THEN sds_now + next_offer_delay_ ELSE sds_now
    /\ sds_rounds' = IF sds_running THEN sds_rounds - 1 ELSE sds_rounds
    /\ sds_timer_pc' = "check"
    /\ UNCHANGED <<sds_config, sds_running, sds_transport, offered_services_,
                   next_offer_delay_, sds_sent, sds_shutdown_pc, sds_snapshot, sds_last,
                   sds_budget, sdsOtherVars>>

\* offer timer: if (!running_) break
SdsTimerCheck ==
    /\ sds_timer_pc = "check"
    /\ sds_timer_pc' = IF sds_running THEN "send" ELSE "done"
    /\ UNCHANGED <<sds_config, sds_running, sds_transport, offered_services_,
                   next_offer_delay_, sds_now, sds_sent, sds_shutdown_pc, sds_snapshot,
                   sds_last, sds_budget, sds_rounds, sdsOtherVars>>

\* offer timer: send_periodic_offers and the update of next_offer_delay_
SdsTimerSend ==
    /\ sds_timer_pc = "send"
    /\ sds_sent' = SendMessages(sds_sent, sds_transport,
                                PeriodicOffers(offered_services_, sds_config, sds_now))
    /\ offered_services_' = send_periodic_offers(offered_services_, sds_config, sds_now)
    /\ next_offer_delay_' = NextOfferDelay(next_offer_delay_, sds_config)
    /\ sds_timer_pc' = "test"
    /\ UNCHANGED <<sds_config, sds_running, sds_transport, sds_now, sds_shutdown_pc,
                   sds_snapshot, sds_last, sds_budget, sds_rounds, sdsOtherVars>>

\* SdServerImpl::shutdown: running_ = false
SdsShutdownBegin ==
    /\ sds_shutdown_pc = "idle" /\ sds_running
    /\ sds_running' = FALSE
    /\ sds_shutdown_pc' = "join"
    /\ UNCHANGED <<sds_config, sds_transport, offered_services_, next_offer_delay_,
                   sds_now, sds_sent, sds_timer_pc, sds_snapshot, sds_last, sds_budget,
                   sds_rounds, sdsOtherVars>>

\* shutdown: stop_offer_timer
SdsShutdownJoin ==
    /\ sds_shutdown_pc = "join"
    /\ TimerJoined(sds_timer_pc)
    /\ sds_shutdown_pc' = "stop_offers"
    /\ UNCHANGED <<sds_config, sds_running, sds_transport, offered_services_,
                   next_offer_delay_, sds_now, sds_sent, sds_timer_pc, sds_snapshot,
                   sds_last, sds_budget, sds_rounds, sdsOtherVars>>

\* shutdown: send_stop_offer_messages
SdsShutdownStopOffers ==
    /\ sds_shutdown_pc = "stop_offers"
    /\ sds_sent' = SendMessages(sds_sent, sds_transport,
                                send_stop_offer_messages(offered_services_))
    /\ sds_snapshot' = offered_services_
    /\ sds_shutdown_pc' = "clear"
    /\ UNCHANGED <<sds_config, sds_running, sds_transport, offered_services_,
                   next_offer_delay_, sds_now, sds_timer_pc, sds_last, sds_budget,
                   sds_rounds, sdsOtherVars>>

\* shutdown: offered_services_.clear(), leave the multicast group, stop the
\* transport
SdsShutdownClear ==
    /\ sds_shutdown_pc = "clear"
    /\ offered_services_' = <<>>
    /\ sds_transport' = FALSE
    /\ sds_shutdown_pc' = "returned"
    /\ UNCHANGED <<sds_config, sds_running, next_offer_delay_, sds_now, sds_sent,
                   sds_timer_pc, sds_snapshot, sds_last, sds_budget, sds_rounds,
                   sdsOtherVars>>

\* SdServerImpl::is_ready
SdsIsReady == sds_running /\ sds_transport

----------------------------------------------------------------------------
(* SD client: src/sd/sd_client.cpp                                         *)

MaxSdcCalls == 3
MaxSdcTicks == 2

DEFAULT_FIND_TIMEOUT == 5000

SdcServiceIds == {4660, 22136}
SdcServiceKeys == { <<4660, 1>>, <<4660, 2>>, <<22136, 1>> }
SdcFindTimeouts == {0, 1000}
SdcTickSteps == {1000, 5000}

\* the options of the SD messages that reach the client
SdcOptions ==
    << [type |-> "IPV4_ENDPOINT", address |-> "127.0.0.1", port |-> 30509,
        protocol |-> UDP_PROTOCOL],
       [type |-> "IPV4_ENDPOINT", address |-> "192.168.1.10", port |-> 30510,
        protocol |-> UDP_PROTOCOL] >>

\* OfferService entries that reach the client: offers (ttl 30) with index1 0
\* or 1, and stop offers (ttl 0)
SdcOfferEntries ==
    { [type |-> "OFFER_SERVICE", service_id |-> k[1], instance_id |-> k[2],
       major_version |-> 1, ttl |-> v[1], index1 |-> v[2], index2 |-> 0] :
        k \in SdcServiceKeys, v \in { <<0, 0>>, <<30, 0>>, <<30, 1>> } }

\* the callbacks given to subscribe_service; FALSE is an empty std::function
SdcSubscriptions ==
    { [available_callback |-> TRUE, unavailable_callback |-> TRUE],
      [available_callback |-> TRUE, unavailable_callback |-> FALSE] }

\* a default-constructed ServiceInstance
DefaultServiceInstance ==
    [service_id |-> 0, instance_id |-> 0, major_version |-> 0, minor_version |-> 0,
     ip_address |-> "", port |-> 0, protocol |-> UDP_PROTOCOL, ttl_seconds |-> 0]

\* handle_service_offer: the ServiceInstance built from the entry and the
\* endpoint option the entry refers to
OfferedInstance(entry, options) ==
    LET base == [DefaultServiceInstance EXCEPT !.service_id = entry.service_id,
                                               !.instance_id = entry.instance_id,
                                               !.major_version = entry.major_version,
                                               !.minor_version = 0,
                                               !.ttl_seconds = entry.ttl]
        run1 == IF entry.index1 # 0 THEN 1 ELSE 0
    IN  IF run1 > 0 /\ entry.index1 < Len(options)
           /\ options[entry.index1 + 1].type = "IPV4_ENDPOINT"
        THEN [base EXCEPT !.ip_address = options[entry.index1 + 1].address,
                          !.port = options[entry.index1 + 1].port,
                          !.protocol = options[entry.index1 + 1].protocol]
        ELSE base

\* std::find_if by service id alone
FindAvailableByServiceId(services, service_id, instance_id) ==
    LET hits == { i \in 1 .. Len(services) : services[i].service_id = service_id }
    IN  IF hits = {} THEN 0 ELSE CHOOSE i \in hits : \A j \in hits : i <= j

\* std::find_if over available_services_ by (service_id, instance_id): the
\* position of the first hit, 0 for end()
FindAvailable(services, service_id, instance_id) ==
    LET hits == { i \in 1 .. Len(services) :
                    /\ services[i].service_id = service_id
                    /\ services[i].instance_id = instance_id }
    IN  IF hits = {} THEN 0 ELSE CHOOSE i \in hits : \A j \in hits : i <= j

\* handle_service_offer: push_back or update of available_services_
UpdateAvailable(services, instance) ==
    LET i == FindAvailable(services, instance.service_id, instance.instance_id)
    IN  IF i = 0 THEN Append(services, instance) ELSE [services EXCEPT ![i] = instance]

\* handle_service_stop_offer: remove_if and erase
RemoveAvailable(services, service_id, instance_id) ==
    SelectSeq(services,
              LAMBDA svc : ~(svc.service_id = service_id /\ svc.instance_id = instance_id))

\* a user callback invocation
SdcCall(kind, instance, request_id, find, now) ==
    [kind |-> kind, service_id |-> instance.service_id, instance |-> instance,
     request_id |-> request_id, start_time |-> find.start_time,
     timeout |-> find.timeout, at |-> now]

SdcNoFind == [service_id |-> 0, callback |-> FALSE, start_time |-> 0, timeout |-> 0]

\* handle_service_offer, handle_service_stop_offer: the subscriber callback
SubscriberCalls(subscriptions, kind, instance, now) ==
    IF /\ instance.service_id \in DOMAIN subscriptions
       /\ IF kind = "available"
          THEN subscriptions[instance.service_id].available_callback
          ELSE subscriptions[instance.service_id].unavailable_callback
    THEN <<SdcCall(kind, instance, 0, SdcNoFind, now)>>
    ELSE <<>>

\* handle_service_offer: the callbacks of the pending finds for the service
\* id, here in the order of their request ids
RECURSIVE FindCalls(_, _, _, _)
FindCalls(finds, ids, instance, now) ==
    IF ids = {}
    THEN <<>>
    ELSE LET id == CHOOSE i \in ids : \A j \in ids : i <= j
         IN  (IF finds[id].service_id = instance.service_id /\ finds[id].callback
              THEN <<SdcCall("find", instance, id, finds[id], now)>>
              ELSE <<>>) \o FindCalls(finds, ids \ {id}, instance, now)

\* handle_service_offer with the answered finds left in pending_finds_
KeepPendingFinds(finds, service_id) == finds

\* handle_service_offer: pending_finds_.erase of the finds for the service id
ErasePendingFinds(finds, service_id) ==
    [ id \in { i \in DOMAIN finds : finds[i].service_id # service_id } |-> finds[id] ]

\* SdClientImpl::handle_service_offer: [available, pending, calls]
handle_service_offer(available, subscriptions, finds, entry, options, now) ==
    LET instance == OfferedInstance(entry, options)
    IN  [available |-> UpdateAvailable(available, instance),
         pending |-> ErasePendingFinds(finds, instance.service_id),
         calls |-> SubscriberCalls(subscriptions, "available", instance, now)
                   \o FindCalls(finds, DOMAIN finds, instance, now)]

\* SdClientImpl::handle_service_stop_offer: [available, pending, calls]
handle_service_stop_offer(available, subscriptions, finds, entry, now) ==
    LET instance == [DefaultServiceInstance EXCEPT !.service_id = entry.service_id,
                                                   !.instance_id = entry.instance_id]
    IN  [available |-> RemoveAvailable(available, entry.service_id, entry.instance_id),
         pending |-> finds,
         calls |-> SubscriberCalls(subscriptions, "unavailable", instance, now)]

\* SdClientImpl::process_sd_entries for one OfferService entry
process_sd_entry(available, subscriptions, finds, entry, options, now) ==
    IF entry.ttl = 0
    THEN handle_service_stop_offer(available, subscriptions, finds, entry, now)
    ELSE handle_service_offer(available, subscriptions, finds, entry, options, now)

SdcNoEntry ==
    [type |-> "NONE", service_id |-> 0, instance_id |-> 0, major_version |-> 0,
     ttl |-> 0, index1 |-> 0, index2 |-> 0]

SdcNoCall ==
    [op |-> "none", ret |-> FALSE, entry |-> SdcNoEntry, before_available |-> <<>>,
     before_finds |-> <<>>, before_subscriptions |-> <<>>, calls_before |-> 0]

SdcIdle ==
    /\ sdc_running = FALSE
    /\ service_subscriptions_ = <<>>
    /\ available_services_ = <<>>
    /\ pending_finds_ = <<>>
    /\ next_request_id_ = 1
    /\ sdc_now = 0
    /\ sdc_calls = <<>>
    /\ sdc_last = SdcNoCall
    /\ sdc_budget = 0
    /\ sdc_ticks = 0

\* the client as constructed
SdcConstructed ==
    /\ sdc_running = FALSE
    /\ service_subscriptions_ = <<>>
    /\ available_services_ = <<>>
    /\ pending_finds_ = <<>>
    /\ next_request_id_ = 1
    /\ sdc_now = 0
    /\ sdc_calls = <<>>
    /\ sdc_last = SdcNoCall
    /\ sdc_budget = MaxSdcCalls
    /\ sdc_ticks = MaxSdcTicks

sdcOtherVars == <<msgVars, tpVars, e2eVars, regVars, udpVars, sdsVars, mvVars, sdmVars, lateVars>>

\* SdClientImpl::initialize
SdcInitialize ==
    /\ ~sdc_running
    /\ sdc_running' = TRUE
    /\ UNCHANGED <<service_subscriptions_, available_services_, pending_finds_,
                   next_request_id_, sdc_now, sdc_calls, sdc_last, sdc_budget, sdc_ticks,
                   sdcOtherVars>>

\* SdClientImpl::find_service: the find is sent and the record stored
SdcFindService ==
    /\ sdc_running /\ sdc_budget > 0
    /\ \E service_id \in SdcServiceIds, timeout \in SdcFindTimeouts :
        /\ pending_finds_' =
              [ id \in DOMAIN pending_finds_ \cup {next_request_id_} |->
                  IF id = next_request_id_
                  THEN [service_id |-> service_id, callback |-> TRUE,
                        start_time |-> sdc_now,
                        timeout |-> IF timeout = 0 THEN DEFAULT_FIND_TIMEOUT ELSE timeout]
                  ELSE pending_finds_[id] ]
        /\ sdc_last' = [SdcNoCall EXCEPT !.op = "find_service", !.ret = TRUE,
                                         !.entry.service_id = service_id,
                                         !.before_available = available_services_,
                                         !.before_finds = pending_finds_,
                                         !.before_subscriptions = service_subscriptions_,
                                         !.calls_before = Len(sdc_calls)]
    /\ next_request_id_' = next_request_id_ + 1
    /\ sdc_budget' = sdc_budget - 1
    /\ UNCHANGED <<sdc_running, service_subscriptions_, available_services_, sdc_now,
                   sdc_calls, sdc_ticks, sdcOtherVars>>

\* SdClientImpl::subscribe_service
SdcSubscribeService ==
    /\ sdc_budget > 0
    /\ \E service_id \in SdcServiceIds, callbacks \in SdcSubscriptions :
        LET already_exists == service_id \in DOMAIN service_subscriptions_
        IN  /\ service_subscriptions_' =
                  IF already_exists
                  THEN service_subscriptions_
                  ELSE [ id \in DOMAIN service_subscriptions_ \cup {service_id} |->
                           IF id = service_id THEN callbacks
                           ELSE service_subscriptions_[id] ]
            /\ sdc_last' = [SdcNoCall EXCEPT !.op = "subscribe_service",
                                             !.ret = ~already_exists,
                                             !.entry.service_id = service_id,
                                             !.before_available = available_services_,
                                             !.before_finds = pending_finds_,
                                             !.before_subscriptions = service_subscriptions_,
                                             !.calls_before = Len(sdc_calls)]
    /\ sdc_budget' = sdc_budget - 1
    /\ UNCHANGED <<sdc_running, available_services_, pending_finds_, next_request_id_,
                   sdc_now, sdc_calls, sdc_ticks, sdcOtherVars>>

\* SdClientImpl::unsubscribe_service
SdcUnsubscribeService ==
    /\ sdc_budget > 0
    /\ \E service_id \in DOMAIN service_subscriptions_ :
        /\ service_subscriptions_' =
              [ id \in DOMAIN service_subscriptions_ \ {service_id} |->
                  service_subscriptions_[id] ]
        /\ sdc_last' = [SdcNoCall EXCEPT !.op = "unsubscribe_service", !.ret = TRUE,
                                         !.entry.service_id = service_id,
                                         !.before_available = available_services_,
                                         !.before_finds = pending_finds_,
                                         !.before_subscriptions = service_subscriptions_,
                                         !.calls_before = Len(sdc_calls)]
    /\ sdc_budget' = sdc_budget - 1
    /\ UNCHANGED <<sdc_running, available_services_, pending_finds_, next_request_id_,
                   sdc_now, sdc_calls, sdc_ticks, sdcOtherVars>>

\* process_sd_entries on the receive thread: one OfferService entry of a
\* parsed SD message is handled
SdcProcessOffer ==
    /\ sdc_running /\ sdc_budget > 0
    /\ \E entry \in SdcOfferEntries :
        \E r \in {process_sd_entry(available_services_, service_subscriptions_,
                                   pending_finds_, entry, SdcOptions, sdc_now)} :
            /\ available_services_' = r.available
            /\ pending_finds_' = r.pending
            /\ sdc_calls' = sdc_calls \o r.calls
            /\ sdc_last' = [op |-> "offer", ret |-> TRUE, entry |-> entry,
                            before_available |-> available_services_,
                            before_finds |-> pending_finds_,
                            before_subscriptions |-> service_subscriptions_,
                            calls_before |-> Len(sdc_calls)]
    /\ sdc_budget' = sdc_budget - 1
    /\ UNCHANGED <<sdc_running, service_subscriptions_, next_request_id_, sdc_now,
                   sdc_ticks, sdcOtherVars>>

\* time passes
SdcTick ==
    /\ sdc_ticks > 0
    /\ \E step \in SdcTickSteps : sdc_now' = sdc_now + step
    /\ sdc_ticks' = sdc_ticks - 1
    /\ UNCHANGED <<sdc_running, service_subscriptions_, available_services_,
                   pending_finds_, next_request_id_, sdc_calls, sdc_last, sdc_budget,
                   sdcOtherVars>>

----------------------------------------------------------------------------
(* Message move construction and move assignment: src/someip/message.cpp   *)

MaxMvOps == 3
MOVED_FROM_INTERFACE_VERSION == 255

MvSlots == {"a", "b"}

\* what the move leaves in the source: payload_ and e2e_header_ moved out,
\* interface_version_ = 0xFF, length_ = 8
MovedFrom(other) ==
    [other EXCEPT !.payload = <<>>,
                  !.e2e_header = NoE2EHeader,
                  !.interface_version = MOVED_FROM_INTERFACE_VERSION,
                  !.length = 8]

\* Message::Message(Message&& other): [this, other] after the call
MoveConstruct(other) ==
    [this  |-> [other EXCEPT !.length = 8 + E2ESizeOf(other) + Len(other.payload)],
     other |-> MovedFrom(other)]

\* Message::operator=(Message&& other) for this != &other: [this, other] after the call
MoveAssign(this, other) ==
    [this  |-> [this EXCEPT !.service_id = other.service_id,
                            !.method_id = other.method_id,
                            !.length = 8 + E2ESizeOf(other) + Len(other.payload),
                            !.client_id = other.client_id,
                            !.session_id = other.session_id,
                            !.protocol_version = other.protocol_version,
                            !.interface_version = SOMEIP_INTERFACE_VERSION,
                            !.message_type = other.message_type,
                            !.return_code = other.return_code,
                            !.payload = other.payload,
                            !.e2e_header = other.e2e_header],
     other |-> MovedFrom(other)]

\* the messages the application builds before moving them
MvMessages ==
    { m \in CodecMessages : m.service_id = 4660 /\ m.return_code = 0 /\ m.message_type = 2
                            /\ Len(m.payload) <= 4 }

\* byte images received from a peer whose interface version is 2
MvWireImages == { Serialize([m EXCEPT !.interface_version = 2]) : m \in MvMessages }

MvNoMove == [op |-> "none", src |-> "a", dst |-> "a", before |-> DefaultMessage,
             this |-> DefaultMessage, other |-> DefaultMessage]

MvIdle ==
    /\ mv_objs = [k \in MvSlots |-> DefaultMessage]
    /\ mv_last = MvNoMove
    /\ mv_budget = 0

MvInit ==
    /\ mv_objs = [k \in MvSlots |-> DefaultMessage]
    /\ mv_last = MvNoMove
    /\ mv_budget = MaxMvOps

mvOtherVars == <<msgVars, tpVars, e2eVars, regVars, udpVars, sdsVars, sdcVars, sdmVars, lateVars>>

\* the application builds a message in one of the objects
MvBuild ==
    /\ mv_budget > 0
    /\ \E k \in MvSlots, m \in MvMessages :
         /\ mv_objs' = [mv_objs EXCEPT ![k] = m]
         /\ mv_last' = [MvNoMove EXCEPT !.op = "build", !.dst = k, !.this = m]
    /\ mv_budget' = mv_budget - 1
    /\ UNCHANGED mvOtherVars

\* one of the objects deserializes a received byte image
MvDeserialize ==
    /\ mv_budget > 0
    /\ \E k \in MvSlots, data \in MvWireImages :
         LET r == Deserialize(mv_objs[k], data)
         IN  /\ mv_objs' = [mv_objs EXCEPT ![k] = r.msg]
             /\ mv_last' = [MvNoMove EXCEPT !.op = "deserialize", !.dst = k,
                                            !.this = r.msg]
    /\ mv_budget' = mv_budget - 1
    /\ UNCHANGED mvOtherVars

\* Message fresh(std::move(src)), the fresh object then taking the place of dst
MvMoveConstruct ==
    /\ mv_budget > 0
    /\ \E src \in MvSlots : \E dst \in MvSlots \ {src} :
         LET r == MoveConstruct(mv_objs[src])
         IN  /\ mv_objs' = [mv_objs EXCEPT ![src] = r.other, ![dst] = r.this]
             /\ mv_last' = [op |-> "move_construct", src |-> src, dst |-> dst,
                            before |-> mv_objs[src], this |-> r.this, other |-> r.other]
    /\ mv_budget' = mv_budget - 1
    /\ UNCHANGED mvOtherVars

\* dst = std::move(src); with src = dst the guard this != &other skips the body
MvMoveAssign ==
    /\ mv_budget > 0
    /\ \E src \in MvSlots, dst \in MvSlots :
         IF src = dst
         THEN /\ mv_objs' = mv_objs
              /\ mv_last' = [op |-> "self_move_assign", src |-> src, dst |-> dst,
                             before |-> mv_objs[src], this |-> mv_objs[src],
                             other |-> mv_objs[src]]
         ELSE LET r == MoveAssign(mv_objs[dst], mv_objs[src])
              IN  /\ mv_objs' = [mv_objs EXCEPT ![src] = r.other, ![dst] = r.this]
                  /\ mv_last' = [op |-> "move_assign", src |-> src, dst |-> dst,
                                 before |-> mv_objs[src], this |-> r.this,
                                 other |-> r.other]
    /\ mv_budget' = mv_budget - 1
    /\ UNCHANGED mvOtherVars

----------------------------------------------------------------------------
(* SD message codec: src/sd/sd_message.cpp                                 *)

FIND_SERVICE == 0
OFFER_SERVICE == 1
SUBSCRIBE_EVENTGROUP == 6
SUBSCRIBE_EVENTGROUP_ACK == 7
OPTION_CONFIGURATION == 1
OPTION_IPV4_ENDPOINT == 4
OPTION_IPV4_MULTICAST == 20
SD_ENTRY_SIZE_CHECK == 16
SD_MAX_ITERATIONS == 100

SdmHosts == {"little", "big"}

\* htons / ntohs on a host of the given byte order
Htons(x, host) == IF host = "little" THEN ByteOf(x, 0) * 256 + ByteOf(x, 1) ELSE x
Ntohs(x, host) == Htons(x, host)

\* inet_pton(AF_INET, ...): the octets o[1].o[2].o[3].o[4] stored in memory order,
\* read back as the host's uint32_t s_addr; the empty sequence is a string that
\* does not parse
InetPton(o, host) ==
    IF host = "little"
    THEN <<o[4] * 256 + o[3], o[2] * 256 + o[1]>>
    ELSE <<o[1] * 256 + o[2], o[3] * 256 + o[4]>>

\* IPv4EndpointOption::set_ipv4_address_from_string
SetIpv4AddressFromString(o, host) == IF Len(o) = 4 THEN InetPton(o, host) ELSE WZero

SdServiceEntry(type, index1, index2, sid, iid, major, ttl) ==
    [kind |-> "service", type |-> type, index1 |-> index1, index2 |-> index2,
     service_id |-> sid, instance_id |-> iid, major_version |-> major, ttl |-> ttl,
     eventgroup_id |-> 0]

SdEventGroupEntry(type, index1, index2, sid, iid, major, ttl, egid) ==
    [kind |-> "eventgroup", type |-> type, index1 |-> index1, index2 |-> index2,
     service_id |-> sid, instance_id |-> iid, major_version |-> major, ttl |-> ttl,
     eventgroup_id |-> egid]

SdIPv4EndpointOption(length, address, protocol, port) ==
    [kind |-> "ipv4_endpoint", length |-> length, type |-> OPTION_IPV4_ENDPOINT,
     ipv4_address |-> address, protocol |-> protocol, port |-> port, config_string |-> <<>>]

SdIPv4MulticastOption(length, address, port) ==
    [kind |-> "ipv4_multicast", length |-> length, type |-> OPTION_IPV4_MULTICAST,
     ipv4_address |-> address, protocol |-> 0, port |-> port, config_string |-> <<>>]

SdConfigurationOption(length, str) ==
    [kind |-> "configuration", length |-> length, type |-> OPTION_CONFIGURATION,
     ipv4_address |-> WZero, protocol |-> 0, port |-> 0, config_string |-> str]

\* SdEntry::serialize: 14 bytes
SdEntrySerialize(e) ==
    <<e.type, e.index1, e.index2, 0, 0, 0, 0, 0, 0, 0>> \o WBE32(e.ttl)

\* ServiceEntry::serialize: data[4..8] overwritten (0-based)
ServiceEntrySerialize(e) ==
    [SdEntrySerialize(e) EXCEPT ![5] = ByteOf(e.service_id, 1),
                                ![6] = ByteOf(e.service_id, 0),
                                ![7] = ByteOf(e.instance_id, 1),
                                ![8] = ByteOf(e.instance_id, 0),
                                ![9] = e.major_version]

\* EventGroupEntry::serialize: the same, then the eventgroup id appended
EventGroupEntrySerialize(e) == ServiceEntrySerialize(e) \o BE16(e.eventgroup_id)

EntrySerialize(e) ==
    IF e.kind = "service" THEN ServiceEntrySerialize(e) ELSE EventGroupEntrySerialize(e)

\* SdEntry::deserialize: [ok, type, index1, index2, offset]
SdEntryDeserialize(data, offset) ==
    IF offset + SD_ENTRY_SIZE_CHECK > Len(data)
    THEN [ok |-> FALSE, type |-> 0, index1 |-> 0, index2 |-> 0, offset |-> offset]
    ELSE [ok |-> TRUE, type |-> data[offset + 1], index1 |-> data[offset + 2],
          index2 |-> data[offset + 3], offset |-> offset + 5]

\* ServiceEntry::deserialize: [ok, entry, offset]
ServiceEntryDeserialize(data, offset) ==
    LET b == SdEntryDeserialize(data, offset)
        o == b.offset
        none == SdServiceEntry(0, 0, 0, 0, 0, 0, WZero)
    IN  IF ~b.ok THEN [ok |-> FALSE, entry |-> none, offset |-> o]
        ELSE IF o + 9 > Len(data) THEN [ok |-> FALSE, entry |-> none, offset |-> o]
        ELSE [ok |-> TRUE,
              entry |-> SdServiceEntry(b.type, b.index1, b.index2, RdBE16(data, o),
                                       RdBE16(data, o + 2), data[o + 5],
                                       WRdBE32(data, o + 5)),
              offset |-> o + 9]

\* EventGroupEntry::deserialize: [ok, entry, offset]
EventGroupEntryDeserialize(data, offset) ==
    LET b == SdEntryDeserialize(data, offset)
        o == b.offset
        none == SdEventGroupEntry(0, 0, 0, 0, 0, 0, WZero, 0)
    IN  IF ~b.ok THEN [ok |-> FALSE, entry |-> none, offset |-> o]
        ELSE IF o + 11 > Len(data) THEN [ok |-> FALSE, entry |-> none, offset |-> o]
        ELSE [ok |-> TRUE,
              entry |-> SdEventGroupEntry(b.type, b.index1, b.index2, RdBE16(data, o),
                                          RdBE16(data, o + 2), data[o + 5],
                                          WRdBE32(data, o + 5), RdBE16(data, o + 9)),
              offset |-> o + 11]

\* SdOption::serialize
SdOptionSerialize(o) == BE16(o.length) \o <<o.type, 0>>

\* IPv4EndpointOption::serialize on a host of the given byte order
IPv4EndpointOptionSerialize(o, host) ==
    [SdOptionSerialize(o) \o WBE32(o.ipv4_address) \o <<0, o.protocol>>
       \o BE16(Htons(o.port, host))
     EXCEPT ![1] = 0, ![2] = 8]

\* IPv4MulticastOption::serialize: the length 7 is written over data[2], data[3]
IPv4MulticastOptionSerialize(o) ==
    [SdOptionSerialize(o) \o WBE32(o.ipv4_address) \o <<0>> \o BE16(o.port)
     EXCEPT ![3] = 0, ![4] = 7]

\* ConfigurationOption::serialize
ConfigurationOptionSerialize(o) ==
    [SdOptionSerialize(o) \o o.config_string
     EXCEPT ![3] = ByteOf(Len(o.config_string), 1), ![4] = ByteOf(Len(o.config_string), 0)]

OptionSerialize(o, host) ==
    IF o.kind = "ipv4_endpoint" THEN IPv4EndpointOptionSerialize(o, host)
    ELSE IF o.kind = "ipv4_multicast" THEN IPv4MulticastOptionSerialize(o)
    ELSE ConfigurationOptionSerialize(o)

\* SdOption::deserialize: [ok, length, type, offset]
SdOptionDeserialize(data, offset) ==
    IF offset + 4 > Len(data)
    THEN [ok |-> FALSE, length |-> 0, type |-> 0, offset |-> offset]
    ELSE [ok |-> TRUE, length |-> RdBE16(data, offset), type |-> data[offset + 3],
          offset |-> offset + 4]

\* the three option deserializers: [ok, option, offset]; every read lies below
\* offset + length_ for the lengths a record of this kind can start with
OptionDeserialize(kind, data, offset, host) ==
    LET b == SdOptionDeserialize(data, offset)
        o == b.offset
        none == SdConfigurationOption(0, <<>>)
    IN  IF ~b.ok THEN [ok |-> FALSE, option |-> none, offset |-> o]
        ELSE IF o + b.length > Len(data) THEN [ok |-> FALSE, option |-> none, offset |-> o]
        ELSE IF kind = "ipv4_endpoint"
        THEN [ok |-> TRUE,
              option |-> [SdIPv4EndpointOption(b.length, WRdBE32(data, o), data[o + 6],
                                               Ntohs(RdBE16(data, o + 6), host))
                          EXCEPT !.type = b.type],
              offset |-> o + 8]
        ELSE IF kind = "ipv4_multicast"
        THEN [ok |-> TRUE,
              option |-> [SdIPv4MulticastOption(b.length, WRdBE32(data, o),
                                                RdBE16(data, o + 5))
                          EXCEPT !.type = b.type],
              offset |-> o + 7]
        ELSE [ok |-> TRUE,
              option |-> [SdConfigurationOption(b.length, SubSeq(data, o + 1, o + b.length))
                          EXCEPT !.type = b.type],
              offset |-> o + b.length]

\* SdMessage::SdMessage()
EmptySdMessage == [flags |-> 0, reserved |-> 0, entries |-> <<>>, options |-> <<>>]

RECURSIVE ConcatAll(_)
ConcatAll(ss) == IF ss = <<>> THEN <<>> ELSE Head(ss) \o ConcatAll(Tail(ss))

\* SdMessage::serialize
SdMessageSerialize(m, host) ==
    LET body == ConcatAll([i \in 1 .. Len(m.entries) |-> EntrySerialize(m.entries[i])])
                \o ConcatAll([i \in 1 .. Len(m.options) |->
                                OptionSerialize(m.options[i], host)])
    IN  <<BitAnd(m.flags, 192), ByteOf(m.reserved, 2), ByteOf(m.reserved, 1),
          ByteOf(m.reserved, 0)>> \o BE32(Len(body)) \o body

IsEntryType(t) ==
    t \in {FIND_SERVICE, OFFER_SERVICE, SUBSCRIBE_EVENTGROUP, SUBSCRIBE_EVENTGROUP_ACK}

\* the while loop of SdMessage::deserialize and the check after it: [ok, msg]
RECURSIVE SdWalk(_, _, _, _, _, _)
SdWalk(data, offset, length, iteration, m, host) ==
    IF ~(offset < 8 + length /\ offset < Len(data) /\ iteration < SD_MAX_ITERATIONS)
    THEN [ok |-> offset = 8 + length, msg |-> m]
    ELSE LET type_byte == data[offset + 1]
         IN  IF IsEntryType(type_byte)
             THEN LET r == IF type_byte \in {FIND_SERVICE, OFFER_SERVICE}
                           THEN ServiceEntryDeserialize(data, offset)
                           ELSE EventGroupEntryDeserialize(data, offset)
                  IN  IF ~r.ok THEN [ok |-> FALSE, msg |-> m]
                      ELSE SdWalk(data, r.offset, length, iteration + 1,
                                  [m EXCEPT !.entries = Append(@, r.entry)], host)
             ELSE IF type_byte \in {OPTION_CONFIGURATION, OPTION_IPV4_ENDPOINT,
                                    OPTION_IPV4_MULTICAST}
             THEN LET kind == IF type_byte = OPTION_CONFIGURATION THEN "configuration"
                              ELSE IF type_byte = OPTION_IPV4_ENDPOINT THEN "ipv4_endpoint"
                              ELSE "ipv4_multicast"
                      r == OptionDeserialize(kind, data, offset, host)
                  IN  IF ~r.ok THEN [ok |-> FALSE, msg |-> m]
                      ELSE SdWalk(data, r.offset, length, iteration + 1,
                                  [m EXCEPT !.options = Append(@, r.option)], host)
             ELSE IF offset + 4 > Len(data) THEN [ok |-> FALSE, msg |-> m]
             ELSE IF offset + 4 + RdBE16(data, offset) > Len(data)
             THEN [ok |-> FALSE, msg |-> m]
             ELSE SdWalk(data, offset + 4 + RdBE16(data, offset), length, iteration + 1,
                         m, host)

\* SdMessage::deserialize on object obj: [ok, msg], msg the object after the call
SdMessageDeserialize(obj, data, host) ==
    IF Len(data) < 8 THEN [ok |-> FALSE, msg |-> obj]
    ELSE LET hdr == [obj EXCEPT !.flags = data[1],
                                !.reserved = data[2] * 65536 + data[3] * 256 + data[4]]
             length == RdBE32(data, 4)
         IN  IF 8 + length > Len(data) THEN [ok |-> FALSE, msg |-> hdr]
             ELSE SdWalk(data, 8, length, 0, hdr, host)

----------------------------------------------------------------------------
(* SD codec inputs and actions                                             *)

MaxSdmEntries == 2
MaxSdmOptions == 2

\* dotted addresses as octet sequences; <<>> is a string inet_pton rejects
SdmAddressStrings == { <<192, 168, 1, 100>>, <<10, 0, 0, 1>>, <<127, 127, 127, 127>>, <<>> }
SdmPorts == {30509, 30500, 20560}
SdmProtocols == {17, 6}

SdmEntries ==
    { SdServiceEntry(OFFER_SERVICE, 0, 0, 4660, 22136, 1, W32(30)),
      SdServiceEntry(FIND_SERVICE, 0, 0, 0, 0, 0, W32(3)),
      SdEventGroupEntry(SUBSCRIBE_EVENTGROUP, 0, 0, 4660, 22136, 1, W32(3600), 1),
      SdEventGroupEntry(SUBSCRIBE_EVENTGROUP_ACK, 0, 0, 0, 0, 0, W32(3), 0) }

\* IPv4EndpointOption after set_ipv4_address_from_string, set_port, set_protocol;
\* IPv4MulticastOption after set_ipv4_address(0xEFFFFFFB), set_port(30490), with
\* either value the constructor may have left in length_
SdmOptions(host) ==
    { SdIPv4EndpointOption(8, SetIpv4AddressFromString(<<192, 168, 1, 100>>, host), 17, 30509),
      SdIPv4MulticastOption(0, <<61439, 65531>>, 30490),
      SdIPv4MulticastOption(7, <<61439, 65531>>, 30490) }

SdmSeqs(S, n) == UNION { [1 .. k -> S] : k \in 0 .. n }

\* SdMessage after set_reboot / set_unicast, add_entry and add_option calls
SdmMessages(host) ==
    { [flags |-> f, reserved |-> 0, entries |-> es, options |-> os] :
        f \in {0, 128, 192},
        es \in SdmSeqs(SdmEntries, MaxSdmEntries),
        os \in SdmSeqs(SdmOptions(host), MaxSdmOptions) }

\* byte images that arrive from the network: too short for a header, a length
\* field beyond the data, an unknown option of 512 bytes that is skipped, and
\* a record that starts with the IPv4 endpoint type byte
SdmWireImages ==
    { <<192, 0, 0>>,
      <<0, 0, 0, 0, 0, 0, 0, 9, 1>>,
      <<128, 0, 0, 0, 0, 0, 2, 4, 2, 0, 0, 0>> \o [i \in 1 .. 512 |-> 0],
      <<0, 0, 0, 0, 0, 0, 0, 12, 4, 0, 4, 0, 10, 0, 0, 1, 0, 17, 119, 45>> }

SdmNoOption == [op |-> "none", address |-> <<>>, port |-> 0, protocol |-> 0, data |-> <<>>]
SdmNoParse == [ok |-> FALSE, msg |-> EmptySdMessage, from |-> "none"]

SdmIdle ==
    /\ sdm_host = "little"
    /\ sdm_msg = EmptySdMessage
    /\ sdm_bytes = <<>>
    /\ sdm_rx = SdmNoParse
    /\ sdm_opt = SdmNoOption
    /\ sdm_pc = "idle"

SdmInit ==
    /\ sdm_host \in SdmHosts
    /\ sdm_msg = EmptySdMessage
    /\ sdm_bytes = <<>>
    /\ sdm_rx = SdmNoParse
    /\ sdm_opt = SdmNoOption
    /\ sdm_pc = "idle"

sdmOtherVars == <<msgVars, tpVars, e2eVars, regVars, udpVars, sdsVars, sdcVars, mvVars, lateVars>>

\* the application builds an SdMessage
SdmBuild ==
    /\ sdm_pc = "idle"
    /\ \E m \in SdmMessages(sdm_host) : sdm_msg' = m
    /\ sdm_pc' = "built"
    /\ UNCHANGED <<sdm_host, sdm_bytes, sdm_rx, sdm_opt, sdmOtherVars>>

\* SdMessage::serialize
SdmSerialize ==
    /\ sdm_pc = "built"
    /\ sdm_bytes' = SdMessageSerialize(sdm_msg, sdm_host)
    /\ sdm_pc' = "serialized"
    /\ UNCHANGED <<sdm_host, sdm_msg, sdm_rx, sdm_opt, sdmOtherVars>>

\* a byte image arrives from the network instead
SdmReceive ==
    /\ sdm_pc = "idle"
    /\ \E data \in SdmWireImages : sdm_bytes' = data
    /\ sdm_pc' = "received"
    /\ UNCHANGED <<sdm_host, sdm_msg, sdm_rx, sdm_opt, sdmOtherVars>>

\* a fresh SdMessage deserializes the byte image
SdmDeserialize ==
    /\ sdm_pc \in {"serialized", "received"}
    /\ LET r == SdMessageDeserialize(EmptySdMessage, sdm_bytes, sdm_host)
       IN  sdm_rx' = [ok |-> r.ok, msg |-> r.msg, from |-> sdm_pc]
    /\ sdm_pc' = "deserialized"
    /\ UNCHANGED <<sdm_host, sdm_msg, sdm_bytes, sdm_opt, sdmOtherVars>>

\* IPv4EndpointOption option; set_ipv4_address_from_string, set_port, set_protocol;
\* option.serialize()
SdmOptionSerialize ==
    /\ sdm_pc = "idle"
    /\ \E a \in SdmAddressStrings, port \in SdmPorts, protocol \in SdmProtocols :
         LET o == SdIPv4EndpointOption(8, SetIpv4AddressFromString(a, sdm_host),
                                       protocol, port)
         IN  sdm_opt' = [op |-> "serialize", address |-> a, port |-> port,
                         protocol |-> protocol,
                         data |-> IPv4EndpointOptionSerialize(o, sdm_host)]
    /\ sdm_pc' = "option_serialized"
    /\ UNCHANGED <<sdm_host, sdm_msg, sdm_bytes, sdm_rx, sdmOtherVars>>

----------------------------------------------------------------------------
(* Two threads inside TpSegmenter::segment_message: src/tp/tp_segmenter.cpp *)
(* The function takes no lock; next_sequence_number_++ is a read followed  *)
(* by a write of the shared member.                                        *)

TcThreads == {1, 2}

MaxTcPayload == 25

TcConfig == [max_segment_size |-> 24, max_message_size |-> MaxTcPayload,
             reassembly_timeout |-> 100]

\* a single-segment message, a multi-segment message and one that is too large
TcMessages ==
    { SetPayload(NewMessage(4660, 22136, 43981, 1, 0, 0), TpPayload(n)) :
        n \in {8, MaxTcPayload, MaxTcPayload + 1} }

TcNotCalled == [pc |-> "idle", msg |-> DefaultMessage, seq |-> 0, result |-> "NONE",
                segments |-> <<>>]

TcIdle == tc_thr = [t \in TcThreads |-> TcNotCalled]

TcInit ==
    /\ tc_thr = [t \in TcThreads |-> TcNotCalled]
    /\ tp_config = TcConfig
    /\ next_sequence_number_ \in {0, 255}
    /\ tp_msg = DefaultMessage
    /\ tp_result = "NONE"
    /\ tp_segments = <<>>
    /\ reassembly_buffers_ = <<>>
    /\ tp_delivered = {}
    /\ tp_calls = 0
    /\ tp_last = TpNoCall
    /\ tp_completed = {}
    /\ tp_count = 0
    /\ tp_now = 0
    /\ tp_rx = TprNoCall
    /\ tp_ticks = 0

tcOtherVars == <<msgVars, e2eVars, regVars, udpVars, sdsVars, sdcVars, mvVars, sdmVars,
                 tl_loop, sdl_state, scl_state, tp_config, tp_msg, tp_result, tp_segments,
                 reassembly_buffers_, tp_delivered, tp_calls, tp_last, tp_completed,
                 tp_count, tp_now, tp_rx, tp_ticks>>

\* segment_message is entered: the size test of lines 54-56
TcCall(t) ==
    /\ tc_thr[t].pc = "idle"
    /\ \E m \in TcMessages :
         tc_thr' = [tc_thr EXCEPT ![t] =
                      IF Len(m.payload) > tp_config.max_message_size
                      THEN [@ EXCEPT !.pc = "returned", !.msg = m,
                                     !.result = "MESSAGE_TOO_LARGE"]
                      ELSE [@ EXCEPT !.pc = "load", !.msg = m]]
    /\ UNCHANGED <<next_sequence_number_, tcOtherVars>>

\* next_sequence_number_++ (line 74 or 99): the read
TcLoad(t) ==
    /\ tc_thr[t].pc = "load"
    /\ tc_thr' = [tc_thr EXCEPT ![t].seq = next_sequence_number_, ![t].pc = "store"]
    /\ UNCHANGED <<next_sequence_number_, tcOtherVars>>

\* next_sequence_number_++: the write, and the segments built with the value read
TcStore(t) ==
    /\ tc_thr[t].pc = "store"
    /\ next_sequence_number_' = U8(tc_thr[t].seq + 1)
    /\ LET m == tc_thr[t].msg
           single == Len(m.payload) <= tp_config.max_segment_size
       IN  tc_thr' = [tc_thr EXCEPT ![t] =
                        IF single
                        THEN [@ EXCEPT !.pc = "returned", !.result = "SUCCESS",
                                       !.segments = SingleSegment(tp_config, m, tc_thr[t].seq)]
                        ELSE [@ EXCEPT !.pc = "bump",
                                       !.segments = CreateMultiSegments(tp_config, m,
                                                                     tc_thr[t].seq)]]
    /\ UNCHANGED tcOtherVars

\* next_sequence_number_ = (next_sequence_number_ + 1) % 256 (line 188) and return
TcBump(t) ==
    /\ tc_thr[t].pc = "bump"
    /\ next_sequence_number_' = (next_sequence_number_ + 1) % 256
    /\ tc_thr' = [tc_thr EXCEPT ![t].pc = "returned", ![t].result = "SUCCESS"]
    /\ UNCHANGED tcOtherVars

----------------------------------------------------------------------------
(* The segmenting loop of TpSegmenter::create_multi_segments, one          *)
(* iteration per step: src/tp/tp_segmenter.cpp                             *)
(* Only the lengths and the payload position are followed, so payloads     *)
(* above UINT16_MAX bytes are within reach.                                *)

TlSegmentSizes == {1392, 16388}

TlMaxMessageSize == 70000

\* payload sizes: one segment, a few segments, UINT16_MAX, just above it,
\* max_message_size, and one above max_message_size
TlPayloadSizes == {1000, 3000, UINT16_MAX, UINT16_MAX + 1, UINT16_MAX + 5,
                   TlMaxMessageSize, TlMaxMessageSize + 1}

TlNotCalled == [pc |-> "idle", max_segment_size |-> 0, total_length |-> 0,
                payload_offset |-> 0, result |-> "NONE"]

TlIdle == tl_loop = TlNotCalled

tlOtherVars == <<msgVars, tpVars, e2eVars, regVars, udpVars, sdsVars, sdcVars, mvVars,
                 sdmVars, tc_thr, sdl_state, scl_state>>

\* segment_message up to the loop: the size tests of lines 54-59, and
\* payload_offset = first_payload_size of lines 98, 117 and 136
TlCall ==
    /\ tl_loop.pc = "idle"
    /\ \E mss \in TlSegmentSizes, total \in TlPayloadSizes :
         tl_loop' =
           IF total > TlMaxMessageSize
           THEN [TlNotCalled EXCEPT !.pc = "returned", !.max_segment_size = mss,
                                    !.total_length = total,
                                    !.result = "MESSAGE_TOO_LARGE"]
           ELSE IF total <= mss
           THEN [TlNotCalled EXCEPT !.pc = "returned", !.max_segment_size = mss,
                                    !.total_length = total, !.result = "SUCCESS"]
           ELSE [TlNotCalled EXCEPT !.pc = "loop", !.max_segment_size = mss,
                                    !.total_length = total,
                                    !.payload_offset = U16(Min(mss - 16 - 4, total))]
    /\ UNCHANGED tlOtherVars

\* the size of the slice one iteration takes (lines 144, 156-157)
TlPayloadSize(l) ==
    U16(Min(l.max_segment_size - 4, l.total_length - l.payload_offset))

\* one iteration of while (payload_offset < total_length), lines 140-186
TlStep ==
    /\ tl_loop.pc = "loop"
    /\ tl_loop.payload_offset < tl_loop.total_length
    /\ tl_loop' = [tl_loop EXCEPT
                     !.payload_offset = U16(@ + TlPayloadSize(tl_loop))]
    /\ UNCHANGED tlOtherVars

\* the loop condition is false: lines 188-190
TlReturn ==
    /\ tl_loop.pc = "loop"
    /\ ~(tl_loop.payload_offset < tl_loop.total_length)
    /\ tl_loop' = [tl_loop EXCEPT !.pc = "returned", !.result = "SUCCESS"]
    /\ UNCHANGED tlOtherVars

----------------------------------------------------------------------------
(* SdServerImpl::shutdown against the receive thread and the offer timer:  *)
(* who holds offered_services_mutex_, src/sd/sd_server.cpp and             *)
(* UdpTransport::stop / receive_loop, src/transport/udp_transport.cpp.     *)
(* A std::scoped_lock blocks until offered_services_mutex_ is free.        *)

MaxSdlDatagrams == 2

\* what an arriving datagram makes the listener do: handle_find_service,
\* handle_eventgroup_subscription_request, or nothing (no SD message)
SdlDatagramKinds == {"find", "subscribe", "other"}

SdlNotConstructed ==
    [main |-> "none", timer |-> "none", rx |-> "none", mutex |-> "free",
     sd_running |-> FALSE, transport_running |-> FALSE, socket_open |-> FALSE,
     queue |-> <<>>, current |-> "none", arrivals |-> 0, offered |-> 0]

SdlIdle == sdl_state = SdlNotConstructed

\* after initialize(): transport started, offer timer started, and the
\* application has offered no or one service
SdlInitialized ==
    \E n \in {0, 1} :
        sdl_state = [main |-> "idle", timer |-> "test", rx |-> "loop", mutex |-> "free",
                     sd_running |-> TRUE, transport_running |-> TRUE,
                     socket_open |-> TRUE, queue |-> <<>>, current |-> "none",
                     arrivals |-> MaxSdlDatagrams, offered |-> n]

sdlOtherVars == <<msgVars, tpVars, e2eVars, regVars, udpVars, sdsVars, sdcVars, mvVars,
                  sdmVars, tc_thr, tl_loop, scl_state>>

\* a datagram reaches the socket
SdlArrive ==
    /\ sdl_state.socket_open /\ sdl_state.arrivals > 0
    /\ \E k \in SdlDatagramKinds :
         sdl_state' = [sdl_state EXCEPT !.queue = Append(@, k), !.arrivals = @ - 1]
    /\ UNCHANGED sdlOtherVars

\* ---- the thread inside shutdown(), lines 80-101

\* if (!running_) return; running_ = false;
SdlShutdownBegin ==
    /\ sdl_state.main = "idle" /\ sdl_state.sd_running
    /\ sdl_state' = [sdl_state EXCEPT !.sd_running = FALSE, !.main = "join_timer"]
    /\ UNCHANGED sdlOtherVars

\* stop_offer_timer(): offer_timer_thread_.join()
SdlJoinTimer ==
    /\ sdl_state.main = "join_timer"
    /\ sdl_state.timer = "done"
    /\ sdl_state' = [sdl_state EXCEPT !.main = "stop_offers_lock"]
    /\ UNCHANGED sdlOtherVars

\* send_stop_offer_messages(): the scoped_lock of line 328
SdlStopOffersLock ==
    /\ sdl_state.main = "stop_offers_lock"
    /\ sdl_state.mutex = "free"
    /\ sdl_state' = [sdl_state EXCEPT !.mutex = "main", !.main = "stop_offers"]
    /\ UNCHANGED sdlOtherVars

\* send_stop_offer_messages(): the sends, and the lock released on return
SdlStopOffers ==
    /\ sdl_state.main = "stop_offers"
    /\ sdl_state' = [sdl_state EXCEPT !.mutex = "free", !.main = "clear_lock"]
    /\ UNCHANGED sdlOtherVars

\* std::scoped_lock lock(offered_services_mutex_) of line 94: held until
\* shutdown() returns
SdlClearLock ==
    /\ sdl_state.main = "clear_lock"
    /\ sdl_state.mutex = "free"
    /\ sdl_state' = [sdl_state EXCEPT !.mutex = "main", !.main = "clear"]
    /\ UNCHANGED sdlOtherVars

\* offered_services_.clear(); leave_multicast_group();
SdlClear ==
    /\ sdl_state.main = "clear"
    /\ sdl_state' = [sdl_state EXCEPT !.offered = 0, !.main = "transport_stop"]
    /\ UNCHANGED sdlOtherVars

\* transport_->stop(): running_ = false, shutdown and close of the socket
SdlTransportStop ==
    /\ sdl_state.main = "transport_stop"
    /\ sdl_state' = [sdl_state EXCEPT !.transport_running = FALSE,
                                      !.socket_open = FALSE, !.main = "join"]
    /\ UNCHANGED sdlOtherVars

\* transport_->stop(): receive_thread_.join(); then shutdown() returns and
\* the lock of line 94 is released
SdlJoinReceive ==
    /\ sdl_state.main = "join"
    /\ sdl_state.rx = "done"
    /\ sdl_state' = [sdl_state EXCEPT !.mutex = "free", !.main = "returned"]
    /\ UNCHANGED sdlOtherVars

\* ---- the offer timer thread, lines 285-303

\* while (running_)
SdlTimerTest ==
    /\ sdl_state.timer = "test"
    /\ sdl_state' = [sdl_state EXCEPT
                       !.timer = IF sdl_state.sd_running THEN "sleep" ELSE "done"]
    /\ UNCHANGED sdlOtherVars

\* sleep_for(next_offer_delay_); if (!running_) break;
SdlTimerSleep ==
    /\ sdl_state.timer = "sleep"
    /\ sdl_state' = [sdl_state EXCEPT
                       !.timer = IF sdl_state.sd_running THEN "offers_lock" ELSE "done"]
    /\ UNCHANGED sdlOtherVars

\* send_periodic_offers(): the scoped_lock of line 313
SdlTimerLock ==
    /\ sdl_state.timer = "offers_lock"
    /\ sdl_state.mutex = "free"
    /\ sdl_state' = [sdl_state EXCEPT !.mutex = "timer", !.timer = "offers"]
    /\ UNCHANGED sdlOtherVars

\* send_periodic_offers(): the sends, the lock released, the delay updated
SdlTimerSend ==
    /\ sdl_state.timer = "offers"
    /\ sdl_state' = [sdl_state EXCEPT !.mutex = "free", !.timer = "test"]
    /\ UNCHANGED sdlOtherVars

\* ---- the receive thread: UdpTransport::receive_loop and the listener

\* while (running_)
SdlLoopTest ==
    /\ sdl_state.rx = "loop"
    /\ sdl_state' = [sdl_state EXCEPT
                       !.rx = IF sdl_state.transport_running THEN "recv" ELSE "done"]
    /\ UNCHANGED sdlOtherVars

\* receive_data: a datagram is taken, or the socket was closed under the
\* call (NOT_CONNECTED breaks the loop, anything else goes round once more)
SdlReceive ==
    /\ sdl_state.rx = "recv"
    /\ \/ /\ sdl_state.socket_open /\ sdl_state.queue # <<>>
          /\ sdl_state' = [sdl_state EXCEPT !.queue = Tail(@),
                                            !.current = Head(sdl_state.queue),
                                            !.rx = "deliver"]
       \/ /\ ~sdl_state.socket_open
          /\ \E to \in {"done", "loop"} :
               sdl_state' = [sdl_state EXCEPT !.rx = to]
    /\ UNCHANGED sdlOtherVars

\* on_message_received and process_sd_entries: a FindService entry goes to
\* handle_find_service, a subscription is answered without the lock, any
\* other message is dropped
SdlDeliver ==
    /\ sdl_state.rx = "deliver"
    /\ sdl_state' = [sdl_state EXCEPT
                       !.rx = IF sdl_state.current = "find" THEN "find_lock" ELSE "loop"]
    /\ UNCHANGED sdlOtherVars

\* handle_find_service: the scoped_lock of line 456
SdlFindLock ==
    /\ sdl_state.rx = "find_lock"
    /\ sdl_state.mutex = "free"
    /\ sdl_state' = [sdl_state EXCEPT !.mutex = "rx", !.rx = "find"]
    /\ UNCHANGED sdlOtherVars

\* handle_find_service: the search, the unicast offer, the lock released
SdlFind ==
    /\ sdl_state.rx = "find"
    /\ sdl_state' = [sdl_state EXCEPT !.mutex = "free", !.rx = "loop"]
    /\ UNCHANGED sdlOtherVars

SdlMain ==
    \/ SdlShutdownBegin \/ SdlJoinTimer \/ SdlStopOffersLock \/ SdlStopOffers
    \/ SdlClearLock \/ SdlClear \/ SdlTransportStop \/ SdlJoinReceive

SdlTimer == SdlTimerTest \/ SdlTimerSleep \/ SdlTimerLock \/ SdlTimerSend

SdlReceiver == SdlLoopTest \/ SdlReceive \/ SdlDeliver \/ SdlFindLock \/ SdlFind

----------------------------------------------------------------------------
(* SdClientImpl: the mutexes held while a user callback runs, and the      *)
(* calls a callback makes on the same client: src/sd/sd_client.cpp         *)

MaxSclMessages == 2

\* what a user callback does: nothing, or one call on the client
SclCallbackBodies == {"nothing", "subscribe_service", "unsubscribe_service",
                      "find_service"}

\* the std::mutex each call takes (lines 124, 139, 153)
SclMutexOf(call) ==
    IF call = "find_service" THEN "pending_finds_mutex_" ELSE "subscriptions_mutex_"

SclNotConstructed ==
    [pc |-> "none", held |-> {}, entry |-> "none", subscription |-> "none",
     find |-> "none", body |-> "none", after |-> "none", messages |-> 0]

SclIdle == scl_state = SclNotConstructed

\* after initialize(): no subscription, no pending find
SclInitialized ==
    scl_state = [SclNotConstructed EXCEPT !.pc = "idle", !.messages = MaxSclMessages]

sclOtherVars == <<msgVars, tpVars, e2eVars, regVars, udpVars, sdsVars, sdcVars, mvVars,
                  sdmVars, tc_thr, tl_loop, sdl_state>>

\* application thread: subscribe_service with callbacks of the given body
SclSubscribe ==
    /\ scl_state.pc = "idle" /\ scl_state.subscription = "none"
    /\ \E b \in SclCallbackBodies :
         scl_state' = [scl_state EXCEPT !.subscription = b]
    /\ UNCHANGED sclOtherVars

\* application thread: find_service with a callback of the given body
SclFind ==
    /\ scl_state.pc = "idle" /\ scl_state.find = "none"
    /\ \E b \in SclCallbackBodies :
         scl_state' = [scl_state EXCEPT !.find = b]
    /\ UNCHANGED sclOtherVars

\* receive thread: process_sd_entries reaches an OfferService entry,
\* ttl > 0 (handle_service_offer) or ttl = 0 (handle_service_stop_offer)
SclReceive ==
    /\ scl_state.pc = "idle" /\ scl_state.messages > 0
    /\ \E e \in {"offer", "stop_offer"} :
         scl_state' = [scl_state EXCEPT !.pc = "available", !.entry = e,
                                        !.messages = @ - 1]
    /\ UNCHANGED sclOtherVars

\* the block under available_services_mutex_ (lines 346-359, 391-399):
\* locked, updated, unlocked
SclUpdateAvailable ==
    /\ scl_state.pc = "available"
    /\ scl_state' = [scl_state EXCEPT !.pc = "notify_lock"]
    /\ UNCHANGED sclOtherVars

\* std::scoped_lock lock(subscriptions_mutex_) of lines 362 and 402: held to
\* the end of the function
SclLockSubscriptions ==
    /\ scl_state.pc = "notify_lock"
    /\ scl_state' = [scl_state EXCEPT !.held = @ \cup {"subscriptions_mutex_"},
                                      !.pc = "notify"]
    /\ UNCHANGED sclOtherVars

\* where handle_service_offer goes on after the subscriber was notified; the
\* stop-offer handler returns and releases its lock
SclAfterNotify(s) ==
    IF s.entry = "offer"
    THEN [s EXCEPT !.pc = "finds_lock", !.body = "none"]
    ELSE [s EXCEPT !.pc = "idle", !.held = {}, !.body = "none", !.entry = "none"]

\* lines 363-366 and 403-406: the subscriber's callback is called, if any
SclNotify ==
    /\ scl_state.pc = "notify"
    /\ scl_state' = IF scl_state.subscription = "none"
                    THEN SclAfterNotify(scl_state)
                    ELSE [scl_state EXCEPT !.pc = "in_callback",
                                           !.body = scl_state.subscription,
                                           !.after = "notify"]
    /\ UNCHANGED sclOtherVars

\* std::scoped_lock lock(pending_finds_mutex_) of line 370
SclLockFinds ==
    /\ scl_state.pc = "finds_lock"
    /\ scl_state' = [scl_state EXCEPT !.held = @ \cup {"pending_finds_mutex_"},
                                      !.pc = "finds"]
    /\ UNCHANGED sclOtherVars

\* the end of handle_service_offer: the find erased, both locks released
SclAfterFinds(s) ==
    [s EXCEPT !.pc = "idle", !.held = {}, !.body = "none", !.find = "none",
              !.entry = "none"]

\* lines 371-381: the pending find's callback is called, if any
SclFinds ==
    /\ scl_state.pc = "finds"
    /\ scl_state' = IF scl_state.find = "none"
                    THEN SclAfterFinds(scl_state)
                    ELSE [scl_state EXCEPT !.pc = "in_callback",
                                           !.body = scl_state.find,
                                           !.after = "finds"]
    /\ UNCHANGED sclOtherVars

\* the outcomes of std::mutex::lock() by the thread that owns the mutex
\* (undefined behaviour): the thread blocks for ever, or lock() throws
\* std::system_error and the receive thread ends in std::terminate
RelockOutcomes == {"blocked", "terminated"}

\* the thread goes on after the callback has returned
SclCallbackReturned(s) ==
    IF s.after = "notify" THEN SclAfterNotify(s) ELSE SclAfterFinds(s)

\* the user callback runs on the receive thread: it returns at once, or it
\* calls subscribe_service, unsubscribe_service or find_service, which locks
\* the call's mutex
SclCallback ==
    /\ scl_state.pc = "in_callback"
    /\ IF scl_state.body # "nothing" /\ SclMutexOf(scl_state.body) \in scl_state.held
       THEN \E o \in RelockOutcomes : scl_state' = [scl_state EXCEPT !.pc = o]
       ELSE scl_state' =
              LET s == IF scl_state.body = "subscribe_service"
                          /\ scl_state.subscription = "none"
                       THEN [scl_state EXCEPT !.subscription = "nothing"]
                       ELSE IF scl_state.body = "unsubscribe_service"
                       THEN [scl_state EXCEPT !.subscription = "none"]
                       ELSE IF scl_state.body = "find_service"
                               /\ scl_state.find = "none"
                       THEN [scl_state EXCEPT !.find = "nothing"]
                       ELSE scl_state
              IN  SclCallbackReturned(s)
    /\ UNCHANGED sclOtherVars


LateIdle == TcIdle /\ TlIdle /\ SdlIdle /\ SclIdle

NetIdle == UdpIdle /\ SdsIdle /\ SdcIdle /\ MvIdle /\ SdmIdle /\ LateIdle

----------------------------------------------------------------------------
(* Specifications                                                          *)

MsgInit == MsgIdle /\ TpIdle /\ E2EIdle /\ RegIdle /\ NetIdle
MsgNext == MsgBuild \/ MsgSerialize \/ MsgDeserialize
SpecMsg == MsgInit /\ [][MsgNext]_vars

TpSpecInit == TpInit /\ MsgIdle /\ E2EIdle /\ RegIdle /\ NetIdle
TpNext == TpSegmentMessage \/ TpProcessSegment
SpecTp == TpSpecInit /\ [][TpNext]_vars

TpsInit ==
    /\ tp_config \in [max_segment_size : TpSegmentSizes,
                      max_message_size : {MaxTpPayload - 4},
                      reassembly_timeout : {100}] \cup {TpLargeConfig}
    /\ next_sequence_number_ = 0
    /\ tp_msg = DefaultMessage
    /\ tp_result = "NONE"
    /\ tp_segments = <<>>
    /\ reassembly_buffers_ = <<>>
    /\ tp_delivered = {}
    /\ tp_calls = 0
    /\ tp_last = TpNoCall
    /\ tp_completed = {}
    /\ tp_count = 0
    /\ tp_now = 0
    /\ tp_rx = TprNoCall
    /\ tp_ticks = 0
    /\ MsgIdle /\ E2EIdle /\ RegIdle /\ NetIdle
TpsNext == TpSegmentMessage
SpecTpSegmenter == TpsInit /\ [][TpsNext]_vars

TprSpecInit == TprInit /\ MsgIdle /\ E2EIdle /\ RegIdle /\ NetIdle
TprNext == TprProcessSegment \/ TprProcessTimeouts \/ TprTick
SpecTpReassembler == TprSpecInit /\ [][TprNext]_vars

MvSpecInit == MvInit /\ MsgIdle /\ TpIdle /\ E2EIdle /\ RegIdle /\ UdpIdle /\ SdsIdle /\ SdcIdle
              /\ SdmIdle /\ LateIdle
MvNext == MvBuild \/ MvDeserialize \/ MvMoveConstruct \/ MvMoveAssign
SpecMsgMove == MvSpecInit /\ [][MvNext]_vars

SdmSpecInit == SdmInit /\ MsgIdle /\ TpIdle /\ E2EIdle /\ RegIdle /\ UdpIdle /\ SdsIdle
               /\ SdcIdle /\ MvIdle /\ LateIdle
SdmNext == SdmBuild \/ SdmSerialize \/ SdmReceive \/ SdmDeserialize \/ SdmOptionSerialize
SpecSdMessage == SdmSpecInit /\ [][SdmNext]_vars

CounterInit ==
    /\ E2EFresh /\ e2e_now = 1000 /\ e2e_budget = MaxCounterOps /\ e2e_ticks = 0
    /\ MsgIdle /\ TpIdle /\ RegIdle /\ NetIdle
CounterNext ==
    \/ E2EProtect(CounterConfigs, CounterPayloads)
    \/ E2EReceiveCounter(ReceivedCounters)
    \/ E2EValidate
SpecE2ECounter == CounterInit /\ [][CounterNext]_vars

WireInit ==
    /\ E2EFresh /\ e2e_now \in WireStartTimes /\ e2e_budget = MaxWireOps /\ e2e_ticks = 0
    /\ MsgIdle /\ TpIdle /\ RegIdle /\ NetIdle
WireNext ==
    \/ E2EProtect(WireConfigs, WirePayloads)
    \/ E2EWire
    \/ E2EValidate
SpecE2EWire == WireInit /\ [][WireNext]_vars

CrcInit ==
    /\ E2EFresh /\ e2e_now = 1000 /\ e2e_budget = MaxCrcOps /\ e2e_ticks = 0
    /\ MsgIdle /\ TpIdle /\ RegIdle /\ NetIdle
CrcNext ==
    \/ E2EProtect(CrcConfigs, CrcPayloads)
    \/ E2ETamper
    \/ E2EValidate
SpecE2ECrc == CrcInit /\ [][CrcNext]_vars

FreshInit ==
    /\ E2EFresh /\ e2e_now \in FreshStartTimes /\ e2e_budget = MaxFreshOps
    /\ e2e_ticks = MaxFreshTicks
    /\ MsgIdle /\ TpIdle /\ RegIdle /\ NetIdle
FreshNext ==
    \/ E2EProtect(FreshConfigs, FreshPayloads)
    \/ E2ETick(FreshSteps)
    \/ E2EValidate
SpecE2EFresh == FreshInit /\ [][FreshNext]_vars

ReplayInit ==
    /\ E2EFresh /\ e2e_now = 1000 /\ e2e_budget = MaxReplayOps
    /\ e2e_ticks = MaxReplayTicks
    /\ MsgIdle /\ TpIdle /\ RegIdle /\ NetIdle
ReplayNext ==
    \/ E2EProtect(ReplayConfigs, ReplayPayloads)
    \/ E2ETick(ReplaySteps)
    \/ E2ETamper
    \/ E2EReceiveCounter(ReplayCounters)
    \/ E2EValidate
SpecE2EReplay == ReplayInit /\ [][ReplayNext]_vars

RegInit == RegIdle /\ MsgIdle /\ TpIdle /\ E2EIdle /\ NetIdle
RegNext ==
    \/ RegRegister
    \/ RegRegisterNull
    \/ RegUnregister
    \/ UserBegin
    \/ UserGetById
    \/ UserGetByName
    \/ UserGetDefault
    \/ UserReturn
SpecRegistry == RegInit /\ [][RegNext]_vars

UdpInit == UdpConstructed /\ MsgIdle /\ TpIdle /\ E2EIdle /\ RegIdle /\ SdsIdle /\ SdcIdle /\ MvIdle /\ SdmIdle /\ LateIdle
UdpNext ==
    \/ UdpStart
    \/ UdpArrive
    \/ UdpRecvError
    \/ UdpStopBegin
    \/ UdpLoopTest
    \/ UdpRecvEnter
    \/ UdpRecvDatagram
    \/ UdpRecvShutdown
    \/ UdpDeserialize
    \/ UdpCallback
    \/ UdpSleep
    \/ UdpStopShutdown
    \/ UdpStopClose
    \/ UdpStopClear
    \/ UdpStopJoin
SpecUdp == UdpInit /\ [][UdpNext]_vars
\* both threads keep running: the worker and the thread inside stop() take
\* their next step whenever they can
SpecUdpLive == UdpInit /\ [][UdpNext]_vars /\ WF_vars(UdpWorker) /\ WF_vars(UdpStopping)

SdsInit == SdsConstructed /\ MsgIdle /\ TpIdle /\ E2EIdle /\ RegIdle /\ UdpIdle /\ SdcIdle /\ MvIdle /\ SdmIdle /\ LateIdle
SdsNext ==
    \/ SdsInitialize
    \/ SdsOfferService
    \/ SdsStopOfferService
    \/ SdsHandleFindService
    \/ SdsTimerTest
    \/ SdsTimerSleep
    \/ SdsTimerCheck
    \/ SdsTimerSend
    \/ SdsShutdownBegin
    \/ SdsShutdownJoin
    \/ SdsShutdownStopOffers
    \/ SdsShutdownClear
SpecSdServer == SdsInit /\ [][SdsNext]_vars

\* the offer timer under several configurations: the delay reaches
\* repetition_max at once, after one step that is cut by the cap, after two
\* doublings
SdsTimerConfigs ==
    { [max_services |-> 1, initial_delay |-> c[1], repetition_multiplier |-> c[2],
       repetition_max |-> c[3], cyclic_offer |-> 150] :
        c \in { <<100, 2, 400>>, <<100, 3, 250>>, <<400, 2, 400>>, <<50, 4, 200>> } }

SdsTimerInit ==
    /\ sds_config \in SdsTimerConfigs
    /\ sds_running = FALSE
    /\ sds_transport = FALSE
    /\ offered_services_ = <<>>
    /\ next_offer_delay_ = sds_config.initial_delay
    /\ sds_now = 0
    /\ sds_sent = <<>>
    /\ sds_timer_pc = "none"
    /\ sds_shutdown_pc = "idle"
    /\ sds_snapshot = <<>>
    /\ sds_last = SdsNoCall
    /\ sds_budget = MaxSdsTimerCalls
    /\ sds_rounds = MaxSdsTimerRounds
    /\ MsgIdle /\ TpIdle /\ E2EIdle /\ RegIdle /\ UdpIdle /\ SdcIdle /\ MvIdle /\ SdmIdle
    /\ LateIdle

\* the steps of the offer timer thread
SdsTimer == SdsTimerTest \/ SdsTimerSleep \/ SdsTimerCheck \/ SdsTimerSend

\* the timer thread is scheduled whenever it can take a step
SpecSdTimer == SdsTimerInit /\ [][SdsNext]_vars /\ WF_vars(SdsTimer)

SdcInit == SdcConstructed /\ MsgIdle /\ TpIdle /\ E2EIdle /\ RegIdle /\ UdpIdle /\ SdsIdle /\ MvIdle /\ SdmIdle /\ LateIdle
SdcNext ==
    \/ SdcInitialize
    \/ SdcFindService
    \/ SdcSubscribeService
    \/ SdcUnsubscribeService
    \/ SdcProcessOffer
    \/ SdcTick
SpecSdClient == SdcInit /\ [][SdcNext]_vars

\* two threads in segment_message on one TpSegmenter
TcSpecInit ==
    /\ TcInit
    /\ MsgIdle /\ E2EIdle /\ RegIdle /\ UdpIdle /\ SdsIdle /\ SdcIdle /\ MvIdle /\ SdmIdle
    /\ TlIdle /\ SdlIdle /\ SclIdle
TcNext ==
    \/ \E t \in TcThreads : TcCall(t)
    \/ \E t \in TcThreads : TcLoad(t)
    \/ \E t \in TcThreads : TcStore(t)
    \/ \E t \in TcThreads : TcBump(t)
SpecTpThreads == TcSpecInit /\ [][TcNext]_vars

\* the segmenting loop, iteration by iteration; the calling thread keeps
\* running
TlSpecInit ==
    /\ MsgIdle /\ TpIdle /\ E2EIdle /\ RegIdle /\ UdpIdle /\ SdsIdle /\ SdcIdle /\ MvIdle
    /\ SdmIdle /\ TcIdle /\ TlIdle /\ SdlIdle /\ SclIdle
TlNext == TlCall \/ TlStep \/ TlReturn
SpecTpLoop == TlSpecInit /\ [][TlNext]_vars /\ WF_vars(TlStep \/ TlReturn)

\* SD server shutdown with the receive thread and the offer timer running;
\* every thread takes its next step whenever it can
SdlSpecInit ==
    /\ SdlInitialized
    /\ MsgIdle /\ TpIdle /\ E2EIdle /\ RegIdle /\ UdpIdle /\ SdsIdle /\ SdcIdle /\ MvIdle
    /\ SdmIdle /\ TcIdle /\ TlIdle /\ SclIdle
SdlNext ==
    \/ SdlArrive
    \/ SdlShutdownBegin
    \/ SdlJoinTimer
    \/ SdlStopOffersLock
    \/ SdlStopOffers
    \/ SdlClearLock
    \/ SdlClear
    \/ SdlTransportStop
    \/ SdlJoinReceive
    \/ SdlTimerTest
    \/ SdlTimerSleep
    \/ SdlTimerLock
    \/ SdlTimerSend
    \/ SdlLoopTest
    \/ SdlReceive
    \/ SdlDeliver
    \/ SdlFindLock
    \/ SdlFind
SpecSdShutdown ==
    SdlSpecInit /\ [][SdlNext]_vars
    /\ WF_vars(SdlMain) /\ WF_vars(SdlTimer) /\ WF_vars(SdlReceiver)

\* SD client callbacks that call back into the client
SclSpecInit ==
    /\ SclInitialized
    /\ MsgIdle /\ TpIdle /\ E2EIdle /\ RegIdle /\ UdpIdle /\ SdsIdle /\ SdcIdle /\ MvIdle
    /\ SdmIdle /\ TcIdle /\ TlIdle /\ SdlIdle
SclNext ==
    \/ SclSubscribe
    \/ SclFind
    \/ SclReceive
    \/ SclUpdateAvailable
    \/ SclLockSubscriptions
    \/ SclNotify
    \/ SclLockFinds
    \/ SclFinds
    \/ SclCallback
SpecSdClientLocks == SclSpecInit /\ [][SclNext]_vars

----------------------------------------------------------------------------
(* C1: when every segment segment_message returned for a message has been  *)
(* passed to process_segment (any order, repeats allowed), some call has   *)
(* reported a complete message whose data equals the message's payload.    *)
C1_ReassemblyYieldsPayload ==
    (tp_result = "SUCCESS" /\ tp_delivered = 1 .. Len(tp_segments)) =>
        tp_msg.payload \in tp_completed

----------------------------------------------------------------------------
(* C2: for every valid Message, serialize has 16 + e2e_size + payload      *)
(* length bytes, deserialize of those bytes returns true, and the result   *)
(* equals the message in every header field, the E2E header and payload.   *)
C2_RoundTrip ==
    (msg_pc = "deserialized" /\ IsValid(msg_obj)) =>
        /\ Len(wire) = 16 + E2ESizeOf(msg_obj) + Len(msg_obj.payload)
        /\ rx.ok
        /\ rx.msg = msg_obj

----------------------------------------------------------------------------
(* C3: with CRC, counter and freshness enabled, in every state the profile *)
(* reaches through earlier protect and validate calls, validate called     *)
(* with the same config directly after protect returns SUCCESS.            *)
C3_ValidateAfterProtect ==
    (/\ e2e_last.op = "validate"
     /\ e2e_last.direct
     /\ e2e_cfg.enable_crc /\ e2e_cfg.enable_counter /\ e2e_cfg.enable_freshness) =>
        e2e_last.result = "SUCCESS"

----------------------------------------------------------------------------
(* C4: a protected message that is serialized and deserialized comes back  *)
(* (deserialize returns true) with the same E2E header and payload, and    *)
(* validate of it within the freshness timeout returns SUCCESS, for any    *)
(* data_id, crc_type 0..2 and whatever counter and freshness were written. *)
C4_WireThenValidate ==
    (/\ e2e_last.op = "validate"
     /\ e2e_last.stage = "wired"
     /\ e2e_last.elapsed <= e2e_cfg.freshness_timeout_ms) =>
        /\ e2e_wire_ok
        /\ e2e_msg.e2e_header = e2e_sent.msg.e2e_header
        /\ e2e_msg.payload = e2e_sent.msg.payload
        /\ e2e_last.result = "SUCCESS"

----------------------------------------------------------------------------
(* C5: with enable_crc and crc_type 0, 1 or 2, validate of a message in    *)
(* which one payload byte was changed to a different value after protect   *)
(* (header and payload length untouched) returns INVALID_ARGUMENT.         *)
C5_TamperDetected ==
    (/\ e2e_last.op = "validate"
     /\ e2e_last.stage = "tampered"
     /\ e2e_cfg.enable_crc
     /\ e2e_cfg.crc_type \in 0 .. 2) =>
        e2e_last.result = "INVALID_ARGUMENT"

\* a tampered three-byte payload under CRC32 was validated and rejected
C5_Witness ==
    /\ e2e_last.op = "validate"
    /\ e2e_last.stage = "tampered"
    /\ e2e_cfg.crc_type = 2
    /\ Len(e2e_msg.payload) = 3
    /\ e2e_msg.payload # e2e_sent.msg.payload
    /\ e2e_msg.e2e_header = e2e_sent.msg.e2e_header
    /\ e2e_last.result = "INVALID_ARGUMENT"

----------------------------------------------------------------------------
(* C6: the counter decision of validate.  With L the stored counter and c  *)
(* the header counter: L = 0 accepts iff 1 <= c <= max; c = L accepts;     *)
(* c > L accepts and stores c; c < L accepts and stores c iff              *)
(* L > max - 10 and 1 <= c <= 10 (in the integers, for every max, also     *)
(* below 10); whatever is not accepted returns INVALID_ARGUMENT and        *)
(* leaves L alone.                                                         *)
C6_CounterDecision ==
    (e2e_last.op = "validate" /\ e2e_last.checked) =>
        LET L == e2e_last.last_counter
            c == e2e_last.counter
            max == e2e_cfg.max_counter_value
            \* L > max - 10 in the integers
            near_max == IF max[1] = 0 /\ max[2] < 10 THEN TRUE ELSE WGt(L, WSub(max, 10))
            accepts == IF L = WZero THEN WGe(c, WOne) /\ WLe(c, max)
                       ELSE IF c = L THEN TRUE
                       ELSE IF WGt(c, L) THEN TRUE
                       ELSE near_max /\ WGe(c, WOne) /\ WLe(c, W32(10))
        IN  /\ (e2e_last.result # "INVALID_ARGUMENT") <=> accepts
            /\ e2e_last.stored = IF accepts /\ c # L THEN c ELSE L

----------------------------------------------------------------------------
(* C7: protect never writes counter 0, and of two successive protect calls *)
(* with the same config the second writes the first counter plus one, or 1 *)
(* when the first counter was max_counter_value.                           *)
C7_SuccessiveProtect ==
    (e2e_last.op = "protect" /\ e2e_cfg.enable_counter) =>
        /\ e2e_last.counter # WZero
        /\ e2e_last.direct =>
            e2e_last.counter = IF e2e_last.prev = e2e_cfg.max_counter_value
                               THEN WOne ELSE WInc(e2e_last.prev)

----------------------------------------------------------------------------
(* C8 as stated: validate returns TIMEOUT exactly when more than           *)
(* freshness_timeout_ms milliseconds passed since the protect call.        *)
C8_TimeoutIffElapsed ==
    (/\ e2e_last.op = "validate"
     /\ e2e_cfg.enable_freshness
     /\ e2e_last.result # "INVALID_ARGUMENT") =>
        (e2e_last.result = "TIMEOUT"
            <=> e2e_last.elapsed > e2e_cfg.freshness_timeout_ms)

(* C8: validate returns TIMEOUT exactly when d, the elapsed milliseconds   *)
(* modulo 65536, and t, freshness_timeout_ms modulo 65536, satisfy         *)
(* t < d < 65535 - t.                                                      *)
C8_TimeoutWindow ==
    (/\ e2e_last.op = "validate"
     /\ e2e_cfg.enable_freshness
     /\ e2e_last.result # "INVALID_ARGUMENT") =>
        LET d == e2e_last.elapsed % 65536
            t == e2e_cfg.freshness_timeout_ms % 65536
        IN  e2e_last.result = "TIMEOUT" <=> (t < d /\ d < 65535 - t)

\* a validate whose 16-bit clock wrapped since protect reported TIMEOUT
C8_Witness ==
    /\ e2e_last.op = "validate"
    /\ e2e_last.result = "TIMEOUT"
    /\ e2e_last.elapsed > e2e_cfg.freshness_timeout_ms
    /\ FreshnessOf(e2e_now) < e2e_sent.msg.e2e_header.freshness_value

----------------------------------------------------------------------------
(* C9: the id map and the name map hold the same profiles, each under its  *)
(* own id and name, no two of them with the same id or name; and a         *)
(* register_profile call with a null pointer or with an id or a name that  *)
(* is already registered returns false and changes neither map.            *)
C9_RegistryConsistent ==
    /\ \A i \in DOMAIN profiles_by_id_ :
        /\ reg_heap[profiles_by_id_[i]].id = i
        /\ reg_heap[profiles_by_id_[i]].alive
    /\ \A n \in DOMAIN profiles_by_name_ : reg_heap[profiles_by_name_[n]].name = n
    /\ \A i, j \in DOMAIN profiles_by_id_ :
        i # j => /\ profiles_by_id_[i] # profiles_by_id_[j]
                 /\ reg_heap[profiles_by_id_[i]].name # reg_heap[profiles_by_id_[j]].name
    /\ {profiles_by_id_[i] : i \in DOMAIN profiles_by_id_}
           = {profiles_by_name_[n] : n \in DOMAIN profiles_by_name_}
    /\ (/\ reg_last.op = "register"
        /\ \/ reg_last.null
           \/ reg_last.id \in DOMAIN reg_last.by_id
           \/ reg_last.name \in DOMAIN reg_last.by_name) => ~reg_last.ret
    /\ (reg_last.op = "register" /\ ~reg_last.ret) =>
        /\ profiles_by_id_ = reg_last.by_id
        /\ profiles_by_name_ = reg_last.by_name

\* a profile with a new id and a registered name was refused
C9_Witness ==
    /\ reg_last.op = "register"
    /\ ~reg_last.null
    /\ reg_last.id \notin DOMAIN reg_last.by_id
    /\ reg_last.name \in DOMAIN reg_last.by_name
    /\ ~reg_last.ret
    /\ DOMAIN profiles_by_id_ # {}

----------------------------------------------------------------------------
(* C10: while a thread executes the protect or validate of the profile it  *)
(* got from the registry, that profile object has not been destroyed.      *)
C10_ProfileAliveDuringCall ==
    user_pc = "in_profile" => reg_heap[user_profile].alive

----------------------------------------------------------------------------
(* C11: while the transport runs, every datagram of at most                *)
(* receive_buffer_size bytes that recvfrom consumed and that deserializes  *)
(* to a valid Message is in the receive queue and was passed to            *)
(* on_message_received exactly once with its sender, in arrival order,     *)
(* whatever was received before it; a datagram that does not deserialize   *)
(* causes no callback.                                                     *)
C11_EveryValidDatagramDelivered ==
    udp_pc \in {"loop", "recv", "in_recv", "sleep", "done"} =>
        /\ \A i \in 1 .. Len(udp_log) :
            Len(udp_log[i].data) <= udp_config.receive_buffer_size =>
                LET r == Deserialize(DefaultMessage, udp_log[i].data)
                    calls == { k \in 1 .. Len(udp_callbacks) : udp_callbacks[k].idx = i }
                IN  IF r.ok
                    THEN /\ Cardinality(calls) = 1
                         /\ \A k \in calls :
                                /\ udp_callbacks[k].msg = r.msg
                                /\ udp_callbacks[k].sender = udp_log[i].sender
                         /\ \E q \in 1 .. Len(receive_queue_) : receive_queue_[q] = r.msg
                    ELSE calls = {}
        /\ \A k, l \in 1 .. Len(udp_callbacks) :
            k < l => udp_callbacks[k].idx < udp_callbacks[l].idx

----------------------------------------------------------------------------
(* C12: once stop() has set running_ to false on a running transport, in   *)
(* blocking and non-blocking mode and wherever the receive worker is, the  *)
(* worker eventually leaves its loop, stop() returns SUCCESS and           *)
(* is_running() is false.                                                  *)
C12_StopTerminates ==
    (udp_stop_pc = "shutdown") ~> (udp_stop_pc = "returned" /\ udp_pc = "done" /\ ~running_)

\* stop() has returned after being called while the worker was blocked in
\* recvfrom on a blocking socket
C12_Witness ==
    /\ udp_stop_pc = "returned" /\ udp_pc = "done" /\ ~running_
    /\ udp_config.blocking /\ udp_stop_at = "in_recv"

----------------------------------------------------------------------------
(* C13: the offered list never holds two entries with the same             *)
(* (service_id, instance_id); offer_service for an offered pair returns    *)
(* false and changes nothing, and returns true otherwise;                  *)
(* stop_offer_service returns true and removes exactly that pair when it   *)
(* is offered, and returns false and changes nothing when it is not.       *)
C13_OfferStopOffer ==
    LET before == sds_last.before
        after == sds_last.after
        is_pair(svc) == /\ svc.instance.service_id = sds_last.service_id
                        /\ svc.instance.instance_id = sds_last.instance_id
        offered == \E i \in 1 .. Len(before) : is_pair(before[i])
    IN  /\ \A i, j \in 1 .. Len(offered_services_) :
            (/\ offered_services_[i].instance.service_id
                    = offered_services_[j].instance.service_id
             /\ offered_services_[i].instance.instance_id
                    = offered_services_[j].instance.instance_id) => i = j
        /\ sds_last.op = "offer_service" =>
                IF offered THEN ~sds_last.ret /\ after = before ELSE sds_last.ret
        /\ sds_last.op = "stop_offer_service" =>
                IF offered
                THEN /\ sds_last.ret
                     /\ after = SelectSeq(before, LAMBDA svc : ~is_pair(svc))
                     /\ Len(after) = Len(before) - 1
                ELSE ~sds_last.ret /\ after = before

\* stop_offer_service has removed one of two offered services
C13_Witness ==
    /\ sds_last.op = "stop_offer_service" /\ sds_last.ret
    /\ Len(sds_last.before) = 2 /\ Len(sds_last.after) = 1

----------------------------------------------------------------------------
(* C14: the offered list never holds more than max_services entries; an    *)
(* offer for a new service that arrives when the list is at the cap        *)
(* removes exactly the oldest entry and appends the new one at the end.    *)
C14_OfferedListCapped ==
    /\ Len(offered_services_) <= sds_config.max_services
    /\ (/\ sds_last.op = "offer_service" /\ sds_last.ret
         /\ Len(sds_last.before) = sds_config.max_services) =>
            /\ Len(sds_last.after) = Len(sds_last.before)
            /\ SubSeq(sds_last.after, 1, Len(sds_last.after) - 1)
                  = SubSeq(sds_last.before, 2, Len(sds_last.before))
            /\ LET new == sds_last.after[Len(sds_last.after)]
                IN  /\ new.instance.service_id = sds_last.service_id
                    /\ new.instance.instance_id = sds_last.instance_id

----------------------------------------------------------------------------
(* C15: shutdown of an initialized server joins the offer timer before it  *)
(* sends a STOP_OFFER, so no periodic offer follows the first STOP_OFFER;  *)
(* it multicasts exactly one STOP_OFFER entry with ttl 0 for each service  *)
(* offered at that moment, and leaves the offered list empty and           *)
(* is_ready() false.                                                       *)
C15_ShutdownStopOffers ==
    LET by_shutdown == { i \in 1 .. Len(sds_sent) : sds_sent[i].by = "shutdown" }
    IN  /\ \A i \in by_shutdown, j \in 1 .. Len(sds_sent) :
                sds_sent[j].by = "timer" => j < i
        /\ sds_shutdown_pc \in {"stop_offers", "clear", "returned"} =>
                sds_timer_pc \in {"none", "done"}
        /\ sds_shutdown_pc \in {"clear", "returned"} =>
                /\ Cardinality(by_shutdown) = Len(sds_snapshot)
                /\ \A k \in 1 .. Len(sds_snapshot) :
                        Cardinality({ i \in by_shutdown :
                            /\ sds_sent[i].dest = SdsMulticast
                            /\ Len(sds_sent[i].entries) = 1
                            /\ sds_sent[i].entries[1].type = "STOP_OFFER_SERVICE"
                            /\ sds_sent[i].entries[1].ttl = 0
                            /\ sds_sent[i].entries[1].service_id
                                    = sds_snapshot[k].instance.service_id
                            /\ sds_sent[i].entries[1].instance_id
                                    = sds_snapshot[k].instance.instance_id }) = 1
        /\ sds_shutdown_pc = "returned" => offered_services_ = <<>> /\ ~SdsIsReady

\* shutdown has returned after a periodic offer and two STOP_OFFER messages
C15_Witness ==
    /\ sds_shutdown_pc = "returned"
    /\ Len(sds_snapshot) = 2
    /\ \E i \in 1 .. Len(sds_sent) : sds_sent[i].by = "timer"
    /\ \E i \in 1 .. Len(sds_sent) : sds_sent[i].by = "shutdown"

----------------------------------------------------------------------------
(* C16: for a handled FindService entry, if some offered service has the   *)
(* entry's service_id and the entry's instance_id is 0xFFFF or that        *)
(* service's instance_id, exactly one OfferService message with such a     *)
(* service's entry and IPv4 endpoint option is sent to the sender of the   *)
(* datagram; if no offered service matches, nothing is sent.               *)
C16_FindAnswered ==
    sds_last.op = "find_service" =>
        LET before == sds_last.before
            matches == { i \in 1 .. Len(before) :
                           /\ before[i].instance.service_id = sds_last.service_id
                           /\ \/ sds_last.instance_id = 65535
                              \/ before[i].instance.instance_id = sds_last.instance_id }
        IN  IF matches = {}
            THEN sds_last.sent = <<>>
            ELSE /\ Len(sds_last.sent) = 1
                 /\ sds_last.sent[1].dest = sds_last.sender
                 /\ Len(sds_last.sent[1].entries) = 1
                 /\ \E i \in matches :
                        LET entry == sds_last.sent[1].entries[1]
                        IN  /\ entry.type = "OFFER_SERVICE"
                            /\ entry.service_id = before[i].instance.service_id
                            /\ entry.instance_id = before[i].instance.instance_id
                            /\ entry.major_version = before[i].instance.major_version
                            /\ entry.ttl = before[i].instance.ttl_seconds
                            /\ sds_last.sent[1].options
                                  = <<EndpointOption(before[i].unicast_endpoint)>>
                 /\ sds_sent # <<>>

\* a find for any instance was answered while two instances were offered
C16_Witness ==
    /\ sds_last.op = "find_service" /\ sds_last.instance_id = 65535
    /\ Len(sds_last.before) = 2
    /\ \A i \in 1 .. 2 : sds_last.before[i].instance.service_id = sds_last.service_id
    /\ Len(sds_last.sent) = 1

\* C17: the table of available services holds at most one instance per
\* (service_id, instance_id); a handled OfferService entry with ttl > 0 leaves
\* exactly one instance for its key, built from the entry, and invokes the
\* available callback registered for the service id; an entry with ttl = 0
\* leaves no instance for its key and invokes the registered unavailable
\* callback; the instances of the other keys stay as they were.
C17_AvailableTable ==
    /\ \A i, j \in 1 .. Len(available_services_) :
          (/\ available_services_[i].service_id = available_services_[j].service_id
           /\ available_services_[i].instance_id = available_services_[j].instance_id)
          => i = j
    /\ sdc_last.op = "offer" =>
        LET entry == sdc_last.entry
            IsKey(svc) == /\ svc.service_id = entry.service_id
                          /\ svc.instance_id = entry.instance_id
            NotKey(svc) == ~IsKey(svc)
            IsSubscriberCall(c) == c.kind # "find"
            mine == SelectSeq(available_services_, IsKey)
            subs == sdc_last.before_subscriptions
            new_calls == SubSeq(sdc_calls, sdc_last.calls_before + 1, Len(sdc_calls))
            sub_calls == SelectSeq(new_calls, IsSubscriberCall)
        IN  /\ SelectSeq(available_services_, NotKey)
                  = SelectSeq(sdc_last.before_available, NotKey)
            /\ IF entry.ttl > 0
               THEN /\ Len(mine) = 1
                    /\ mine[1].major_version = entry.major_version
                    /\ mine[1].ttl_seconds = entry.ttl
                    /\ IF entry.service_id \in DOMAIN subs
                          /\ subs[entry.service_id].available_callback
                       THEN /\ Len(sub_calls) = 1
                            /\ sub_calls[1].kind = "available"
                            /\ sub_calls[1].instance = mine[1]
                       ELSE sub_calls = <<>>
               ELSE /\ mine = <<>>
                    /\ IF entry.service_id \in DOMAIN subs
                          /\ subs[entry.service_id].unavailable_callback
                       THEN /\ Len(sub_calls) = 1
                            /\ sub_calls[1].kind = "unavailable"
                            /\ sub_calls[1].instance.service_id = entry.service_id
                            /\ sub_calls[1].instance.instance_id = entry.instance_id
                       ELSE sub_calls = <<>>

\* an offer replaced the instance already known for its key with a different
\* one and the subscriber of the service was called
C17_Witness ==
    /\ sdc_last.op = "offer" /\ sdc_last.entry.ttl > 0
    /\ FindAvailable(sdc_last.before_available, sdc_last.entry.service_id,
                     sdc_last.entry.instance_id) # 0
    /\ available_services_ # sdc_last.before_available
    /\ Len(available_services_) = Len(sdc_last.before_available)
    /\ sdc_last.entry.service_id \in DOMAIN sdc_last.before_subscriptions
    /\ Len(sdc_calls) = sdc_last.calls_before + 1

\* C18: no find_service callback is invoked twice; a handled OfferService
\* entry with ttl > 0 invokes, once each and with the offered instance, the
\* callbacks of exactly the pending finds for its service id and removes
\* those records; the pending finds for other service ids stay as they were.
C18_FindCallbackOnce ==
    /\ \A i, j \in 1 .. Len(sdc_calls) :
          (/\ sdc_calls[i].kind = "find" /\ sdc_calls[j].kind = "find"
           /\ sdc_calls[i].request_id = sdc_calls[j].request_id)
          => i = j
    /\ sdc_last.op = "offer" =>
        LET entry == sdc_last.entry
            before == sdc_last.before_finds
            IsFindCall(c) == c.kind = "find"
            hit == IF entry.ttl > 0
                   THEN { id \in DOMAIN before : before[id].service_id = entry.service_id }
                   ELSE {}
            new_calls == SubSeq(sdc_calls, sdc_last.calls_before + 1, Len(sdc_calls))
            find_calls == SelectSeq(new_calls, IsFindCall)
            at == FindAvailable(available_services_, entry.service_id, entry.instance_id)
        IN  /\ { find_calls[k].request_id : k \in 1 .. Len(find_calls) } = hit
            /\ Len(find_calls) = Cardinality(hit)
            /\ \A k \in 1 .. Len(find_calls) :
                  /\ at # 0
                  /\ find_calls[k].instance = available_services_[at]
            /\ DOMAIN pending_finds_ = (DOMAIN before) \ hit
            /\ \A id \in DOMAIN pending_finds_ : pending_finds_[id] = before[id]

\* an offer answered a pending find while a find for another service stayed
C18_Witness ==
    /\ sdc_last.op = "offer" /\ sdc_last.entry.ttl > 0
    /\ \E id \in DOMAIN sdc_last.before_finds :
          sdc_last.before_finds[id].service_id = sdc_last.entry.service_id
    /\ DOMAIN pending_finds_ # {}
    /\ \E i \in 1 .. Len(sdc_calls) : sdc_calls[i].kind = "find"

\* C19: no find_service callback is invoked later than the find's timeout
\* (the one passed to find_service, 5000 ms when 0 was passed) after the
\* find_service call.
C19_NoCallbackAfterTimeout ==
    \A i \in 1 .. Len(sdc_calls) :
        sdc_calls[i].kind = "find"
        => sdc_calls[i].at - sdc_calls[i].start_time <= sdc_calls[i].timeout

\* C20: a handled OfferService entry for a service id with neither a
\* subscription nor a pending find leaves the table of available services
\* unchanged and invokes no callback.
C20_UnrequestedOfferIgnored ==
    (/\ sdc_last.op = "offer"
     /\ sdc_last.entry.service_id \notin DOMAIN sdc_last.before_subscriptions
     /\ \A id \in DOMAIN sdc_last.before_finds :
           sdc_last.before_finds[id].service_id # sdc_last.entry.service_id)
    => /\ available_services_ = sdc_last.before_available
       /\ Len(sdc_calls) = sdc_last.calls_before

\* C23: process_segment returns false, creates no buffer and changes no
\* buffer for a segment whose payload size differs from segment_length, whose
\* message_length exceeds max_message_size, or whose segment_offset +
\* segment_length exceeds message_length.
C23_InvalidSegmentRejected ==
    (/\ tp_rx.op = "process_segment"
     /\ \/ Len(tp_rx.segment.payload) # tp_rx.segment.header.segment_length
        \/ tp_rx.segment.header.message_length > tp_config.max_message_size
        \/ tp_rx.segment.header.segment_offset + tp_rx.segment.header.segment_length
               > tp_rx.segment.header.message_length)
    => /\ tp_rx.ret = FALSE
       /\ reassembly_buffers_ = tp_rx.before

\* a segment with a payload of the wrong size arrived for a sequence number
\* that is being reassembled
C23_Witness ==
    /\ tp_rx.op = "process_segment"
    /\ Len(tp_rx.segment.payload) # tp_rx.segment.header.segment_length
    /\ tp_rx.segment.header.sequence_number \in DOMAIN tp_rx.before
    /\ tp_rx.ret = FALSE

\* C24 as stated: process_timeouts removes exactly the buffers whose age since
\* the arrival of the segment that created them exceeds reassembly_timeout
\* and leaves the others unchanged.
C24_TimeoutsRemoveOlder ==
    tp_rx.op = "process_timeouts" =>
        /\ DOMAIN reassembly_buffers_
              = { s \in DOMAIN tp_rx.before :
                    ~(tp_rx.at - tp_rx.before[s].start_time
                          > tp_config.reassembly_timeout * MICROSECONDS_PER_MS) }
        /\ \A s \in DOMAIN reassembly_buffers_ : reassembly_buffers_[s] = tp_rx.before[s]

\* C24 amended: process_timeouts removes exactly the buffers whose age since
\* the arrival of the segment that created them, cut down to whole
\* milliseconds, exceeds reassembly_timeout, whatever arrived for them since;
\* it leaves the others unchanged, and is_reassembling is false for the
\* removed ones.
C24_TimeoutsRemoveOlderWholeMs ==
    tp_rx.op = "process_timeouts" =>
        /\ \A s \in DOMAIN tp_rx.before :
              LET age == tp_rx.at - tp_rx.before[s].start_time
              IN  IF (age - (age % MICROSECONDS_PER_MS))
                         > tp_config.reassembly_timeout * MICROSECONDS_PER_MS
                  THEN ~is_reassembling(reassembly_buffers_, s)
                  ELSE /\ is_reassembling(reassembly_buffers_, s)
                       /\ reassembly_buffers_[s] = tp_rx.before[s]
        /\ DOMAIN reassembly_buffers_ \subseteq DOMAIN tp_rx.before

\* process_timeouts removed a buffer that had received a further segment
\* after its first one, and kept a younger buffer
C24_Witness ==
    /\ tp_rx.op = "process_timeouts"
    /\ \E s \in DOMAIN tp_rx.before :
          /\ s \notin DOMAIN reassembly_buffers_
          /\ Len(tp_rx.before[s].received_segments) >= 5
          /\ tp_rx.before[s].received_segments[5]
    /\ \E s \in DOMAIN reassembly_buffers_ : tp_rx.before[s].start_time > 0

\* C27: when process_segment hands back a complete message, every byte
\* position of the message was marked received, by earlier segments of the
\* sequence number or by the bytes of this one, and the buffer is gone.
C27_CompleteOnlyWhenAllMarked ==
    (tp_rx.op = "process_segment" /\ tp_rx.complete_message # <<>>) =>
        LET h == tp_rx.segment.header
            size == Len(tp_rx.segment.payload)
            data_len == IF h.message_type \in {"FIRST_SEGMENT", "SINGLE_MESSAGE"}
                        THEN (IF size > 16 THEN size - 16 ELSE 0)
                        ELSE size
            mask == IF h.sequence_number \in DOMAIN tp_rx.before
                    THEN tp_rx.before[h.sequence_number].received_segments
                    ELSE <<>>
        IN  /\ \A i \in 1 .. Len(tp_rx.complete_message) :
                  \/ (i <= Len(mask) /\ mask[i])
                  \/ (h.segment_offset < i /\ i <= h.segment_offset + data_len)
            /\ ~is_reassembling(reassembly_buffers_, h.sequence_number)

\* C28: a segment whose data bytes all lie on positions already marked
\* received in its buffer leaves the buffer's data and mask as they were, and
\* process_segment returns true.
C28_DuplicateIgnored ==
    LET h == tp_rx.segment.header
        size == Len(tp_rx.segment.payload)
        data_len == IF h.message_type \in {"FIRST_SEGMENT", "SINGLE_MESSAGE"}
                    THEN (IF size > 16 THEN size - 16 ELSE 0)
                    ELSE size
    IN  (/\ tp_rx.op = "process_segment"
         /\ size = h.segment_length /\ size > 0
         /\ h.sequence_number \in DOMAIN tp_rx.before
         /\ \A i \in (h.segment_offset + 1) .. (h.segment_offset + data_len) :
               /\ i <= Len(tp_rx.before[h.sequence_number].received_segments)
               /\ tp_rx.before[h.sequence_number].received_segments[i])
        => /\ tp_rx.ret = TRUE
           /\ is_reassembling(reassembly_buffers_, h.sequence_number)
           /\ reassembly_buffers_[h.sequence_number].received_data
                 = tp_rx.before[h.sequence_number].received_data
           /\ reassembly_buffers_[h.sequence_number].received_segments
                 = tp_rx.before[h.sequence_number].received_segments

\* C25: for a payload longer than max_segment_size and no longer than
\* max_message_size, segment_message returns at least two segments with one
\* sequence number; the first is FIRST_SEGMENT, the final one LAST_SEGMENT and
\* every one between them CONSECUTIVE_SEGMENT.
C25_SegmentTypes ==
    (/\ tp_count > 0
     /\ Len(tp_msg.payload) > tp_config.max_segment_size
     /\ Len(tp_msg.payload) <= tp_config.max_message_size)
    => /\ tp_result = "SUCCESS"
       /\ Len(tp_segments) >= 2
       /\ \A i \in 1 .. Len(tp_segments) :
             /\ tp_segments[i].header.sequence_number
                   = tp_segments[1].header.sequence_number
             /\ tp_segments[i].header.message_type
                   = IF i = 1 THEN "FIRST_SEGMENT"
                     ELSE IF i = Len(tp_segments) THEN "LAST_SEGMENT"
                     ELSE "CONSECUTIVE_SEGMENT"

\* C29: every segment returned by segment_message has a segment_offset that
\* is a multiple of 16, the offsets strictly increase along the list, and the
\* 28-bit offset field of the segment's TP header times 16 is segment_offset.
C29_OffsetsAligned ==
    (tp_count > 0 /\ tp_result = "SUCCESS" /\ Len(tp_segments) >= 2) =>
        /\ \A i \in 1 .. Len(tp_segments) :
              LET seg == tp_segments[i]
                  tp_header == RdBE32(seg.payload, IF i = 1 THEN 16 ELSE 0)
              IN  /\ seg.header.segment_offset % 16 = 0
                  /\ (tp_header \div 16) * 16 = seg.header.segment_offset
        /\ \A i \in 1 .. (Len(tp_segments) - 1) :
              tp_segments[i].header.segment_offset
                  < tp_segments[i + 1].header.segment_offset

\* C30: for a payload longer than max_segment_size, the first segment is the
\* 16-byte SOME/IP header, the 4-byte TP header and the first
\* max_segment_size - 20 payload bytes; each later segment is a 4-byte TP
\* header and at most max_segment_size - 4 payload bytes; no segment is longer
\* than max_segment_size; the payload slices follow one another without gap
\* or overlap and together are the payload.
C30_SegmentLayout ==
    (/\ tp_count > 0
     /\ Len(tp_msg.payload) > tp_config.max_segment_size
     /\ Len(tp_msg.payload) <= tp_config.max_message_size)
    => LET Slice(i) == Drop(tp_segments[i].payload, IF i = 1 THEN 20 ELSE 4)
           Start(i) == tp_segments[i].header.segment_offset
       IN  /\ tp_result = "SUCCESS"
           /\ Len(tp_segments) >= 2
           /\ Len(tp_segments[1].payload) = tp_config.max_segment_size
           /\ Take(tp_segments[1].payload, 4) = Take(Serialize(tp_msg), 4)
           /\ SubSeq(tp_segments[1].payload, 9, 14) = SubSeq(Serialize(tp_msg), 9, 14)
           /\ Start(1) = 0
           /\ \A i \in 1 .. Len(tp_segments) :
                 /\ Len(tp_segments[i].payload) <= tp_config.max_segment_size
                 /\ Len(tp_segments[i].payload) >= (IF i = 1 THEN 20 ELSE 4)
                 /\ Slice(i) = SubSeq(tp_msg.payload, Start(i) + 1, Start(i) + Len(Slice(i)))
                 /\ Len(Slice(i)) > 0
                 /\ IF i < Len(tp_segments)
                    THEN Start(i + 1) = Start(i) + Len(Slice(i))
                    ELSE Start(i) + Len(Slice(i)) = Len(tp_msg.payload)

\* C26: after a move construction or a move assignment between two Message
\* objects, the source's is_valid() is false and the destination holds the
\* source's former ids, protocol and interface version, message type, return
\* code, payload and E2E header, with length = 8 + e2e_size + payload length.
C26_MovedFromInvalidated ==
    mv_last.op \in {"move_construct", "move_assign"} =>
        /\ ~IsValid(mv_last.other)
        /\ mv_last.this.service_id = mv_last.before.service_id
        /\ mv_last.this.method_id = mv_last.before.method_id
        /\ mv_last.this.client_id = mv_last.before.client_id
        /\ mv_last.this.session_id = mv_last.before.session_id
        /\ mv_last.this.protocol_version = mv_last.before.protocol_version
        /\ mv_last.this.interface_version = mv_last.before.interface_version
        /\ mv_last.this.message_type = mv_last.before.message_type
        /\ mv_last.this.return_code = mv_last.before.return_code
        /\ mv_last.this.payload = mv_last.before.payload
        /\ mv_last.this.e2e_header = mv_last.before.e2e_header
        /\ mv_last.this.length = 8 + E2ESizeOf(mv_last.before) + Len(mv_last.before.payload)

\* C22: IPv4EndpointOption::serialize returns length 8, type 0x04, a reserved
\* byte, the address octets in dotted order, a reserved byte, the protocol and
\* the port's high byte followed by its low byte; for 192.168.1.100, port
\* 30509, protocol 0x11 that is 00 08 04 00 C0 A8 01 64 00 11 77 2D.
C22_EndpointOptionBytes ==
    (sdm_opt.op = "serialize" /\ Len(sdm_opt.address) = 4) =>
        sdm_opt.data = <<0, 8, 4, 0>> \o sdm_opt.address \o <<0, sdm_opt.protocol>>
                       \o BE16(sdm_opt.port)

SdmOptionView(o) ==
    [kind |-> o.kind, ipv4_address |-> o.ipv4_address, protocol |-> o.protocol,
     port |-> o.port]

\* C21: the byte image SdMessage::serialize returns is accepted by
\* SdMessage::deserialize, and the parsed message has the same flags, the same
\* entries in the same order (type, index1, index2, service_id, instance_id,
\* major_version, ttl, eventgroup_id) and the same options in the same order.
C21_SdMessageRoundTrip ==
    (sdm_pc = "deserialized" /\ sdm_rx.from = "serialized") =>
        /\ sdm_rx.ok
        /\ sdm_rx.msg.flags = sdm_msg.flags
        /\ sdm_rx.msg.entries = sdm_msg.entries
        /\ Len(sdm_rx.msg.options) = Len(sdm_msg.options)
        /\ \A i \in 1 .. Len(sdm_msg.options) :
             SdmOptionView(sdm_rx.msg.options[i]) = SdmOptionView(sdm_msg.options[i])

----------------------------------------------------------------------------
(* C32: when two threads call segment_message on the same TpSegmenter      *)
(* concurrently, the two messages get different sequence numbers and every *)
(* segment of a message carries that message's own number.                 *)
C32_DistinctSequenceNumbers ==
    \A t \in TcThreads : \A u \in TcThreads \ {t} :
        (tc_thr[t].result = "SUCCESS" /\ tc_thr[u].result = "SUCCESS") =>
            /\ tc_thr[t].seq # tc_thr[u].seq
            /\ \A i \in 1 .. Len(tc_thr[t].segments) :
                   tc_thr[t].segments[i].header.sequence_number = tc_thr[t].seq

----------------------------------------------------------------------------
(* C38: segment_message terminates for every payload up to                 *)
(* max_message_size, payloads above 65535 bytes included: from one         *)
(* iteration of the loop to the next the payload offset grows, and the     *)
(* loop is left after finitely many iterations.                            *)
C38_SegmentLoopTerminates ==
    /\ [][(tl_loop.pc = "loop" /\ tl_loop'.pc = "loop")
            => tl_loop'.payload_offset > tl_loop.payload_offset]_vars
    /\ [][(tl_loop.pc = "loop" /\ tl_loop'.pc = "returned")
            => tl_loop.payload_offset = tl_loop.total_length]_vars
    /\ (tl_loop.pc = "loop") ~> (tl_loop.pc = "returned")

----------------------------------------------------------------------------
(* C35: SdServer shutdown always returns, also while SD messages are being *)
(* handled on the receive thread: the join of the receive thread and the   *)
(* handler's wait for the offered-services lock never block each other     *)
(* for ever.                                                               *)
C35_ShutdownReturns ==
    (sdl_state.main = "join_timer") ~> (sdl_state.main = "returned")

----------------------------------------------------------------------------
(* C36: a callback invoked by the SD client may call subscribe_service,    *)
(* unsubscribe_service or find_service on the same client and the call     *)
(* returns: the client holds none of its locks while a user callback runs. *)
C36_CallbackMayCallClient ==
    /\ scl_state.pc = "in_callback" => scl_state.held = {}
    /\ scl_state.pc \notin RelockOutcomes

----------------------------------------------------------------------------
(* C33: the counter protect writes for a data_id depends only on earlier   *)
(* protect calls: a validate call does not change the counter the next     *)
(* protect will write, and a protect call does not change which received   *)
(* counters validate accepts for that data_id.                             *)
C33_ProtectCounterIndependent ==
    LET max == e2e_cfg.max_counter_value
    IN  /\ e2e_last.op = "validate" =>
              ProtectCounter(e2e_last.stored, max)
                  = ProtectCounter(e2e_last.last_counter, max)
        /\ (e2e_last.op = "protect" /\ e2e_cfg.enable_counter) =>
              \A c \in ReceivedCounters :
                  CounterValid(c, e2e_last.stored, max)
                      = CounterValid(c, e2e_last.last_counter, max)

----------------------------------------------------------------------------
(* C34: a validate call that returns an error (INVALID_ARGUMENT or         *)
(* TIMEOUT) leaves the last counter stored for the data_id unchanged.      *)
C34_RejectedLeavesCounter ==
    (e2e_last.op = "validate" /\ e2e_last.result \in {"INVALID_ARGUMENT", "TIMEOUT"})
        => e2e_last.stored = e2e_last.last_counter

----------------------------------------------------------------------------
(* C37: bytes of two different messages are never combined into one        *)
(* reassembled payload. The two senders of the model use sequence number 0 *)
(* and different data bytes (17.. and 33..): a completed message whose     *)
(* first segment part and consecutive segment part are both filled has     *)
(* both from the same sender, also when a second FIRST segment arrived for *)
(* the sequence number while its buffer existed.                           *)
C37_NoMixedMessages ==
    LET cm == tp_rx.complete_message
    IN  (/\ tp_rx.op = "process_segment"
         /\ Len(cm) >= 5
         /\ cm[1] # 0 /\ cm[5] # 0)
        => (cm[1] - 1) \div 16 = (cm[5] - 1) \div 16

----------------------------------------------------------------------------
(* C39: while is_running() of a started transport is true its receive      *)
(* worker is alive: the worker leaves its loop only after stop() has       *)
(* cleared running_, never because a receive call was interrupted or       *)
(* failed while the transport was running.                                 *)
C39_WorkerAliveWhileRunning ==
    /\ [](running_ => udp_pc # "done")
    /\ [][(udp_pc # "done" /\ udp_pc' = "done") => ~running_]_vars

----------------------------------------------------------------------------
(* C40: when the client handles an OfferService entry (ttl > 0) with       *)
(* index1 = 0 and option 0 of the message is an IPv4 endpoint option, the  *)
(* ServiceInstance stored in available_services_ and passed to the         *)
(* callbacks carries that option's address, port and protocol.             *)
C40_OfferCarriesEndpoint ==
    (/\ sdc_last.op = "offer"
     /\ sdc_last.entry.ttl > 0
     /\ sdc_last.entry.index1 = 0
     /\ SdcOptions[1].type = "IPV4_ENDPOINT")
    => LET i == FindAvailable(available_services_, sdc_last.entry.service_id,
                              sdc_last.entry.instance_id)
           new_calls == SubSeq(sdc_calls, sdc_last.calls_before + 1, Len(sdc_calls))
       IN  /\ i # 0
           /\ available_services_[i].ip_address = SdcOptions[1].address
           /\ available_services_[i].port = SdcOptions[1].port
           /\ available_services_[i].protocol = SdcOptions[1].protocol
           /\ \A k \in 1 .. Len(new_calls) :
                  new_calls[k].instance = available_services_[i]

====
